---- MODULE Spec2Model ----
(***************************************************************************)
(* A state-machine model of the two chatbot plugins of Project-XJEdu:      *)
(*   - WebUpdaterPlugin (the generic web-page change watcher), and          *)
(*   - XJEduPlugin (the competition-notice monitor).                        *)
(* Suspension points are the network awaits (fetch, classification, send)   *)
(* and the sleeps; everything between two of them is one atomic action.     *)
(***************************************************************************)
EXTENDS Integers, Sequences, FiniteSets, TLC

VARIABLES
    \* ---- WebUpdaterPlugin ----
    now,            \* wall clock, int(datetime.now().timestamp())
    tasks,          \* keys of self.tasks (the registry)
    tobj,           \* the WebUpdateTask objects, by id (kept while referenced)
    nextId,         \* next fresh task id (uuid4 stand-in)
    running_tasks,  \* self.running_tasks: task id -> loop handle (0: none)
    loops,          \* the asyncio tasks running _monitoring_loop, by handle
    nextLoop,       \* next fresh loop handle
    cmds,           \* command coroutines suspended at an await
    tasks_file,     \* contents of tasks.json
    lastCheck,      \* log of the most recently completed check_update call
    web_reply,      \* log: the text the latest cmd_enable_monitor replied
    fu,             \* the _fetch_url call of a manual check, attempt by attempt
    \* ---- XJEduPlugin ----
    today,          \* _now().date(), as a day of the year 2026
    ai_use,         \* KV "ai_use"
    subscribers,    \* KV "subscribers"
    last_seen_ids,  \* KV "last_seen_ids" (the dedup ledger)
    competitions,   \* KV "competitions" (the KB)
    errors,         \* KV "errors"
    store_file,     \* contents of competitions_store.json
    cp,             \* the _check_and_push passes in flight, by caller
    isync,          \* the cmd_manual_init / _initial_sync call in flight
    rp,             \* the _send_deadline_reminders pass in flight
    reminded,       \* log of the reminder fan-outs sent: <<id, day>>
    classified,     \* log: the comp record built from the latest AI reply
    cmd_reply,      \* the text the latest subscribe/unsubscribe command replied
    listed,         \* log: what the latest list fetch of a check pass returned
    raised,         \* log: the loops whose except Exception branch has run
    nulled,         \* log: the ids a check pass got no classification for
    after_reset,    \* log: no check pass has read the ledger since a reset
    pushed,         \* log: the <<item id, session>> pairs a broadcast reached
    challenge_warned, \* self._challenge_warned
    renders,        \* log: the number of _fetch_html_playwright calls
    running,        \* self._running
    check_task,     \* self._check_task: the periodic loop's task, or None
    bgloops,        \* the two background loops' tasks
    minute,         \* the wall clock's minute: 0 is 08:59 of the day today
    rl              \* where _daily_deadline_remind_loop is, and its log

webVars == <<now, tasks, tobj, nextId, running_tasks, loops, nextLoop, cmds,
             tasks_file, lastCheck, web_reply, fu>>

\* background state but rl, and all of it
bgRest == <<challenge_warned, renders, running, check_task, bgloops, minute>>
bgVars == <<bgRest, rl>>

xjVars == <<today, ai_use, subscribers, last_seen_ids, competitions, errors,
            store_file, cp, isync, rp, reminded, classified, cmd_reply,
            listed, raised, pushed, nulled, after_reset, bgVars>>

vars == <<webVars, xjVars>>

-----------------------------------------------------------------------------
(* Bounds of the model *)
MaxTasks == 1
MaxLoops == 2
MaxCmds == 1
MaxTicks == 3

None == "None"

Range(s) == {s[i] : i \in DOMAIN s}

-----------------------------------------------------------------------------
(***************************************************************************)
(*                           WebUpdaterPlugin                              *)
(***************************************************************************)
AllTids == 1..MaxTasks
AllLoops == 1..MaxLoops

\* Page bodies a GET may return with status 200 (the empty body included).
Contents == {"", "a", "b"}
\* _fetch_url: the body on status 200, None on a non-200 status, an exception
\* or max_retries timeouts.
FetchResults == Contents \cup {None}

\* Python truthiness of an Optional[str].
Truthy(s) == s # None /\ s # ""

\* _calculate_hash: the SHA-256 hex digest (first four hex digits shown).
CalculateHash(content) ==
    CASE content = ""  -> "e3b0"
      [] content = "a" -> "ca97"
      [] content = "b" -> "3e23"

\* _extract_content_summary: a fixed label followed by the text.
ExtractContentSummary(html) ==
    CASE html = ""  -> "title:(none) summary:..."
      [] html = "a" -> "title:(none) summary:a..."
      [] html = "b" -> "title:(none) summary:b..."

\* str.startswith on the URLs of the model
StartsWith(url, prefix) ==
    <<url, prefix>> \in {<<"http://x", "http://">>,
                         <<"https://x", "https://">>}

\* _validate_url
Urls == {"http://x", "ftp://x"}
AddUrls == Urls \cup {"https://x", "http//x"}
ValidateUrlAny(url) == TRUE
ValidateUrl(url) == StartsWith(url, "http://") \/ StartsWith(url, "https://")

MinInterval == 60
Intervals == {30, 60}
AddIntervals == {59, 60, 61}

\* WebUpdateTask.__init__ as called by cmd_add_monitor.
NewTask(url, interval, origin, time) ==
    [url |-> url, interval |-> interval, enabled |-> TRUE,
     unified_msg_origin |-> origin, last_hash |-> "",
     last_check_time |-> 0, created_time |-> time]

NoTask == [url |-> "", interval |-> 0, enabled |-> FALSE,
           unified_msg_origin |-> "", last_hash |-> "",
           last_check_time |-> 0, created_time |-> 0]

\* WebUpdateTask.to_dict; the entry is kept under its "id".
ToDict(task) ==
    [url |-> task.url, interval |-> task.interval, enabled |-> task.enabled,
     unified_msg_origin |-> task.unified_msg_origin,
     last_hash |-> task.last_hash, last_check_time |-> task.last_check_time,
     created_time |-> task.created_time]

\* WebUpdateTask.from_dict and __init__ at the time of loading
\* (created_time or int(datetime.now().timestamp())).
FromDictAsNew(data, time) ==
    NewTask(data.url, data.interval, data.unified_msg_origin, time)
FromDict(data, time) ==
    [url |-> data.url, interval |-> data.interval, enabled |-> data.enabled,
     unified_msg_origin |-> data.unified_msg_origin,
     last_hash |-> data.last_hash, last_check_time |-> data.last_check_time,
     created_time |-> IF data.created_time # 0 THEN data.created_time
                      ELSE time]

\* save_tasks: the registry's tasks, serialised.
SaveTasks(reg, objs) == [t \in reg |-> ToDict(objs[t])]

\* load_tasks: the registry read from the tasks file.
LoadTasks(file, time) ==
    [t \in AllTids |-> IF t \in DOMAIN file THEN FromDict(file[t], time)
                       ELSE NoTask]

\* check_update line 387: the stored hash is set and equals the new one.
HashUnchanged(last_hash, content_hash) ==
    last_hash # "" /\ last_hash = content_hash

\* A check_update that stamps last_check_time and saves on every call.
CheckUpdateStamping(t, content, time) ==
    LET stamped == [t EXCEPT !.last_check_time = time]
    IN IF ~Truthy(content)
       THEN [ret |-> None, task |-> stamped, saved |-> TRUE]
       ELSE IF HashUnchanged(t.last_hash, CalculateHash(content))
       THEN [ret |-> None, task |-> stamped, saved |-> TRUE]
       ELSE [ret |-> ExtractContentSummary(content),
             task |-> [stamped EXCEPT !.last_hash = CalculateHash(content)],
             saved |-> TRUE]

\* A check_update that returns the summary of a changed page and leaves the
\* stored hash as it was.
CheckUpdateForgetful(t, content, time) ==
    IF ~Truthy(content)
    THEN [ret |-> None, task |-> t, saved |-> FALSE]
    ELSE IF HashUnchanged(t.last_hash, CalculateHash(content))
    THEN [ret |-> None, task |-> t, saved |-> FALSE]
    ELSE [ret |-> ExtractContentSummary(content), task |-> t,
          saved |-> FALSE]

\* check_update, from the return of _fetch_url on: the value returned and the
\* task object afterwards; saved tells whether save_tasks ran.
CheckUpdate(t, content, time) ==
    IF ~Truthy(content)
    THEN [ret |-> None, task |-> t, saved |-> FALSE]
    ELSE IF HashUnchanged(t.last_hash, CalculateHash(content))
    THEN [ret |-> None, task |-> t, saved |-> FALSE]
    ELSE [ret |-> ExtractContentSummary(content),
          task |-> [t EXCEPT !.last_hash = CalculateHash(content),
                             !.last_check_time = time],
          saved |-> TRUE]

\* asyncio.sleep(60) of the except branch, asyncio.sleep(10) of a disabled task
Cooldown == 60
DisabledNap == 10

\* asleep: cancel() was called on the loop while it slept between checks;
\* wake: the time its asyncio.sleep ends (0 when not asleep); checked_at: log,
\* the time its latest check began (0: none yet); erred: log, its except
\* Exception branch has run.
NoLoop == [tid |-> 0, pc |-> "unused", cancel |-> FALSE, asleep |-> FALSE,
           content |-> None, wake |-> 0, checked_at |-> 0, erred |-> FALSE]
\* The log of a check_update call: the stored hash before and after, what
\* _fetch_url returned, and the value returned.
NoCheck == [prev_hash |-> "", fetched |-> None, ret |-> None, new_hash |-> ""]

\* ---- _fetch_url ----
MaxRetries == 3
Backoff == 2

\* What one client.get of _fetch_url ends in: a response with status 200 and
\* a body, a response with another status, httpx.TimeoutException, or
\* another exception.
FetchOutcomes ==
    [kind : {"ok"}, text : Contents]
    \cup [kind : {"status", "timeout", "error"}, text : {None}]

\* line 422: the failure that lets the for loop go on to the next attempt.
RetryableAny(outcome) == outcome.kind # "ok"
Retryable(outcome) == outcome.kind = "timeout"

NoCmd == [kind |-> "none", tid |-> 0, loop |-> 0]

\* attempt: the for loop's variable; outcomes: the log of the call's gets;
\* waited: the seconds slept between attempts; result: the value returned.
\* pc is idle before the first call and once the caller took the result.
NoFetch == [pc |-> "idle", caller |-> NoCmd, attempt |-> 0, outcomes |-> <<>>,
            waited |-> 0, result |-> None]

\* asyncio: a task whose cancel() was called gets CancelledError at its
\* current await; _monitoring_loop breaks on it (lines 368-370).
CancelIgnored(h) == FALSE
CancelPending(h) == loops[h].cancel

InitWeb ==
    /\ now = 1
    /\ tasks = {}
    /\ tobj = [t \in AllTids |-> NoTask]
    /\ nextId = 1
    /\ running_tasks = [t \in AllTids |-> 0]
    /\ loops = [h \in AllLoops |-> NoLoop]
    /\ nextLoop = 1
    /\ cmds = {}
    /\ tasks_file = SaveTasks({}, tobj)
    /\ lastCheck = NoCheck
    /\ web_reply = "none"
    /\ fu = NoFetch

\* start_monitoring: no-op when a loop is registered, else create_task.
\* Yields the new running_tasks, loops and nextLoop.
StartMonitoring(tid, rt, ls, nl) ==
    IF rt[tid] # 0
    THEN [rt |-> rt, ls |-> ls, nl |-> nl]
    ELSE [rt |-> [rt EXCEPT ![tid] = nl],
          ls |-> [ls EXCEPT ![nl] = [NoLoop EXCEPT !.tid = tid,
                                                   !.pc = "new"]],
          nl |-> nl + 1]

\* cmd_add_monitor lines 159, 164 and 177: what the command replies.
AddReply(url, interval) ==
    IF ~ValidateUrl(url) THEN "invalid url"
    ELSE IF interval < MinInterval THEN "interval too small"
    ELSE "added"

\* cmd_add_monitor; its reply (web_reply) is left to the caller.
CmdAdd(url, interval) ==
    /\ nextId <= MaxTasks
    /\ nextLoop <= MaxLoops
    /\ IF AddReply(url, interval) # "added"
       THEN UNCHANGED <<now, tasks, tobj, nextId, running_tasks, loops,
                        nextLoop, cmds, tasks_file, lastCheck, fu>>
       ELSE LET tid == nextId
                objs == [tobj EXCEPT ![tid] = NewTask(url, interval, "u1", now)]
                reg == tasks \cup {tid}
                sm == StartMonitoring(tid, running_tasks, loops, nextLoop)
            IN /\ tobj' = objs
               /\ tasks' = reg
               /\ nextId' = nextId + 1
               /\ tasks_file' = SaveTasks(reg, objs)
               /\ running_tasks' = sm.rt
               /\ loops' = sm.ls
               /\ nextLoop' = sm.nl
               /\ UNCHANGED <<now, cmds, lastCheck, fu>>

\* on_bot_loaded lines 122-124: start_monitoring for the enabled tasks of ts,
\* one after the other.
RECURSIVE StartEnabled(_, _, _)
StartEnabled(ts, objs, st) ==
    IF ts = {} THEN st
    ELSE LET t == CHOOSE u \in ts : \A v \in ts : u <= v
             nx == IF objs[t].enabled
                   THEN StartMonitoring(t, st.rt, st.ls, st.nl)
                   ELSE st
         IN StartEnabled(ts \ {t}, objs, nx)

\* The process is restarted: __init__, then on_bot_loaded with its
\* load_tasks. The commands and loops of the old process are gone; log: its
\* "loaded" line is written to web_reply.
Restart ==
    LET objs == LoadTasks(tasks_file, now)
        reg == DOMAIN tasks_file
        st == StartEnabled(reg, objs,
                           [rt |-> [t \in AllTids |-> 0],
                            ls |-> [h \in AllLoops |-> NoLoop], nl |-> 1])
    IN /\ Cardinality({t \in reg : objs[t].enabled}) <= MaxLoops
       /\ tasks' = reg
       /\ tobj' = objs
       /\ running_tasks' = st.rt
       /\ loops' = st.ls
       /\ nextLoop' = st.nl
       /\ cmds' = {}
       /\ fu' = NoFetch
       /\ web_reply' = "loaded"
       /\ UNCHANGED <<now, nextId, tasks_file, lastCheck>>

\* cmd_enable_monitor line 254: the task is enabled already.
AlreadyEnabledNever(task) == FALSE
AlreadyEnabled(task) == task.enabled

\* cmd_enable_monitor; log: the reply is written to web_reply.
CmdEnable(tid, log) ==
    /\ nextLoop <= MaxLoops
    /\ web_reply' = IF ~log THEN web_reply
                    ELSE IF tid \notin tasks THEN "not found"
                    ELSE IF AlreadyEnabled(tobj[tid]) THEN "already enabled"
                    ELSE "enabled"
    /\ IF tid \notin tasks \/ AlreadyEnabled(tobj[tid])
       THEN UNCHANGED <<now, tasks, tobj, nextId, running_tasks, loops,
                        nextLoop, cmds, tasks_file, lastCheck, fu>>
       ELSE LET objs == [tobj EXCEPT ![tid].enabled = TRUE]
                sm == StartMonitoring(tid, running_tasks, loops, nextLoop)
            IN /\ tobj' = objs
               /\ tasks_file' = SaveTasks(tasks, objs)
               /\ running_tasks' = sm.rt
               /\ loops' = sm.ls
               /\ nextLoop' = sm.nl
               /\ UNCHANGED <<now, tasks, nextId, cmds, lastCheck, fu>>

\* stop_monitoring up to its await: pop the handle and cancel the loop. A
\* loop that already finished makes `await task` return at once.
\* cmd_disable_monitor, up to the await inside stop_monitoring.
CmdDisable(tid) ==
    /\ IF tid \notin tasks \/ ~tobj[tid].enabled
       THEN UNCHANGED webVars
       ELSE LET objs == [tobj EXCEPT ![tid].enabled = FALSE]
                h == running_tasks[tid]
            IN /\ tobj' = objs
               /\ tasks_file' = SaveTasks(tasks, objs)
               /\ IF h = 0
                  THEN UNCHANGED <<running_tasks, loops, cmds>>
                  ELSE /\ Cardinality(cmds) < MaxCmds
                       /\ running_tasks' = [running_tasks EXCEPT ![tid] = 0]
                       /\ loops' = [loops EXCEPT
                                        ![h].cancel = (loops[h].pc # "done"),
                                        ![h].asleep = (loops[h].pc = "sleep")]
                       /\ cmds' = cmds \cup {[kind |-> "disable", tid |-> tid,
                                              loop |-> h]}
               /\ UNCHANGED <<now, tasks, nextId, nextLoop, lastCheck,
                              web_reply, fu>>

\* cmd_remove_monitor, up to the await inside stop_monitoring; with no loop
\* registered stop_monitoring returns at once and the task is popped.
CmdRemove(tid) ==
    /\ IF tid \notin tasks
       THEN UNCHANGED webVars
       ELSE LET h == running_tasks[tid]
            IN IF h = 0
               THEN /\ tasks' = tasks \ {tid}
                    /\ tasks_file' = SaveTasks(tasks \ {tid}, tobj)
                    /\ UNCHANGED <<now, tobj, nextId, running_tasks, loops,
                                   nextLoop, cmds, lastCheck, web_reply, fu>>
               ELSE /\ Cardinality(cmds) < MaxCmds
                    /\ running_tasks' = [running_tasks EXCEPT ![tid] = 0]
                    /\ loops' = [loops EXCEPT
                                     ![h].cancel = (loops[h].pc # "done"),
                                     ![h].asleep = (loops[h].pc = "sleep")]
                    /\ cmds' = cmds \cup {[kind |-> "remove", tid |-> tid,
                                           loop |-> h]}
                    /\ UNCHANGED <<now, tasks, tobj, nextId, nextLoop,
                                   tasks_file, lastCheck, web_reply, fu>>

\* stop_monitoring resumes once the awaited loop is done; the command then
\* finishes: remove pops the task (KeyError if it is gone: caught, reported)
\* and saves; disable only replies.
CmdStopResume(c) ==
    /\ c \in cmds
    /\ c.kind \in {"disable", "remove"}
    /\ loops[c.loop].pc = "done"
    /\ cmds' = cmds \ {c}
    /\ IF c.kind = "remove" /\ c.tid \in tasks
       THEN /\ tasks' = tasks \ {c.tid}
            /\ tasks_file' = SaveTasks(tasks \ {c.tid}, tobj)
       ELSE UNCHANGED <<tasks, tasks_file>>
    /\ UNCHANGED <<now, tobj, nextId, running_tasks, loops, nextLoop,
                   lastCheck, web_reply, fu>>

\* cmd_check_now up to the await of _fetch_url inside check_update.
CmdCheckNow(tid) ==
    /\ Cardinality(cmds) < MaxCmds
    /\ IF tid \notin tasks
       THEN UNCHANGED webVars
       ELSE /\ cmds' = cmds \cup {[kind |-> "check", tid |-> tid, loop |-> 0]}
            /\ UNCHANGED <<now, tasks, tobj, nextId, running_tasks, loops,
                           nextLoop, tasks_file, lastCheck, web_reply, fu>>

\* cmd_check_now from the return of _fetch_url on; log: the call is written
\* to lastCheck. (fu is left to the caller.)
CmdCheckDone(c, content, log) ==
    /\ c \in cmds
    /\ c.kind = "check"
    /\ LET r == CheckUpdate(tobj[c.tid], content, now)
           objs == [tobj EXCEPT ![c.tid] = r.task]
       IN /\ tobj' = objs
          /\ tasks_file' = IF r.saved THEN SaveTasks(tasks, objs)
                           ELSE tasks_file
          /\ lastCheck' = IF log
                           THEN [prev_hash |-> tobj[c.tid].last_hash,
                                 fetched |-> content, ret |-> r.ret,
                                 new_hash |-> r.task.last_hash]
                           ELSE lastCheck
    /\ cmds' = cmds \ {c}
    /\ UNCHANGED <<now, tasks, nextId, running_tasks, loops, nextLoop,
                   web_reply>>

\* _monitoring_loop: first step of the task, or wake-up from a sleep.
\* task = self.tasks[task_id] raises KeyError when the task is gone.
LoopRun(h) ==
    /\ loops[h].pc \in {"new", "sleep", "cooldown"}
    /\ ~CancelPending(h)
    /\ LET tid == loops[h].tid
       IN loops' =
              IF loops[h].pc = "new" /\ tid \notin tasks
              THEN [loops EXCEPT ![h].pc = "done", ![h].wake = 0]
              ELSE IF ~tobj[tid].enabled
              THEN [loops EXCEPT ![h].pc = "sleep",
                                 ![h].wake = now + DisabledNap]
              ELSE [loops EXCEPT ![h].pc = "fetch", ![h].wake = 0,
                                 ![h].checked_at = now]
    /\ UNCHANGED <<now, tasks, tobj, nextId, running_tasks, nextLoop, cmds,
                   tasks_file, lastCheck, web_reply, fu>>

\* _monitoring_loop from the return of _fetch_url inside check_update on;
\* log: the call is written to lastCheck.
LoopFetchDone(h, content, log) ==
    /\ loops[h].pc = "fetch"
    /\ ~CancelPending(h)
    /\ LET tid == loops[h].tid
           r == CheckUpdate(tobj[tid], content, now)
           objs == [tobj EXCEPT ![tid] = r.task]
       IN /\ tobj' = objs
          /\ tasks_file' = IF r.saved THEN SaveTasks(tasks, objs)
                           ELSE tasks_file
          /\ lastCheck' = IF log
                           THEN [prev_hash |-> tobj[tid].last_hash,
                                 fetched |-> content, ret |-> r.ret,
                                 new_hash |-> r.task.last_hash]
                           ELSE lastCheck
          /\ loops' = [loops EXCEPT ![h].pc =
                           IF Truthy(r.ret) THEN "send" ELSE "sleep",
                                    ![h].content = r.ret,
                                    ![h].wake =
                           IF Truthy(r.ret) THEN 0
                           ELSE now + tobj[tid].interval]
    /\ UNCHANGED <<now, tasks, nextId, running_tasks, nextLoop, cmds,
                   web_reply, fu>>

\* _send_update_notification returns (delivered, or the failure was logged).
LoopSendDone(h) ==
    /\ loops[h].pc = "send"
    /\ ~CancelPending(h)
    /\ loops' = [loops EXCEPT ![h].pc = "sleep", ![h].content = None,
                              ![h].wake = now + tobj[loops[h].tid].interval]
    /\ UNCHANGED <<now, tasks, tobj, nextId, running_tasks, nextLoop, cmds,
                   tasks_file, lastCheck, web_reply, fu>>

\* CancelledError is raised at the loop's await, and the task ends.
LoopCancelled(h) ==
    /\ loops[h].pc \in {"new", "fetch", "send", "sleep", "cooldown"}
    /\ CancelPending(h)
    /\ loops' = [loops EXCEPT ![h].pc = "done", ![h].content = None,
                              ![h].wake = 0]
    /\ UNCHANGED <<now, tasks, tobj, nextId, running_tasks, nextLoop, cmds,
                   tasks_file, lastCheck, web_reply, fu>>

\* The sleep of the except Exception branch (line 373).
ErrorNapInterval(task) == task.interval
ErrorNap(task) == Cooldown

\* _monitoring_loop lines 371-373: an exception escapes the calls of the try
\* body; it is logged and the loop sleeps 60 seconds.
LoopError(h) ==
    /\ loops[h].pc \in {"fetch", "send"}
    /\ ~CancelPending(h)
    /\ loops' = [loops EXCEPT ![h].pc = "cooldown", ![h].content = None,
                              ![h].wake = now + ErrorNap(tobj[loops[h].tid]),
                              ![h].erred = TRUE]
    /\ UNCHANGED <<now, tasks, tobj, nextId, running_tasks, nextLoop, cmds,
                   tasks_file, lastCheck, web_reply, fu>>

\* The loop's asyncio.sleep is over.
Awake(h) == now >= loops[h].wake

\* Time passes, in steps of the shortest interval.
Tick ==
    /\ now < 1 + MinInterval * MaxTicks
    /\ now' = now + MinInterval
    /\ UNCHANGED <<tasks, tobj, nextId, running_tasks, loops, nextLoop, cmds,
                   tasks_file, lastCheck, web_reply, fu>>

\* check_update of the manual check c calls _fetch_url, which enters its for
\* loop and awaits the first client.get.
FetchCall(c) ==
    /\ c \in cmds
    /\ c.kind = "check"
    /\ fu.pc = "idle"
    /\ fu' = [NoFetch EXCEPT !.pc = IF MaxRetries > 0 THEN "get"
                                    ELSE "returned",
                             !.caller = c]
    /\ UNCHANGED <<now, tasks, tobj, nextId, running_tasks, loops, nextLoop,
                   cmds, tasks_file, lastCheck, web_reply>>

\* _fetch_url lines 405-428: the get of this attempt ended in outcome.
FetchGetDone(outcome) ==
    /\ fu.pc = "get"
    /\ LET log == Append(fu.outcomes, outcome)
       IN fu' = IF outcome.kind = "ok"
                THEN [fu EXCEPT !.pc = "returned", !.outcomes = log,
                                !.result = outcome.text]
                ELSE IF ~Retryable(outcome)
                THEN [fu EXCEPT !.pc = "returned", !.outcomes = log,
                                !.result = None]
                ELSE IF fu.attempt < MaxRetries - 1
                THEN [fu EXCEPT !.pc = "backoff", !.outcomes = log]
                ELSE [fu EXCEPT !.pc = "returned", !.outcomes = log,
                                !.result = None]
    /\ UNCHANGED <<now, tasks, tobj, nextId, running_tasks, loops, nextLoop,
                   cmds, tasks_file, lastCheck, web_reply>>

\* _fetch_url line 425: asyncio.sleep(2) is over, the next attempt starts.
FetchBackoffDone ==
    /\ fu.pc = "backoff"
    /\ fu' = [fu EXCEPT !.waited = fu.waited + Backoff,
                        !.attempt = fu.attempt + 1,
                        !.pc = IF fu.attempt + 1 < MaxRetries THEN "get"
                               ELSE "returned"]
    /\ UNCHANGED <<now, tasks, tobj, nextId, running_tasks, loops, nextLoop,
                   cmds, tasks_file, lastCheck, web_reply>>

\* The manual check whose _fetch_url call returned goes on in check_update
\* (the call's log is kept).
CheckFetched(c) ==
    /\ fu.pc = "returned"
    /\ fu.caller = c
    /\ CmdCheckDone(c, fu.result, TRUE)
    /\ fu' = [fu EXCEPT !.pc = "idle", !.caller = NoCmd]

\* The commands and the loops' steps; log: the check_update calls are logged.
WebStep(log) ==
    \/ \E u \in Urls, i \in Intervals :
          CmdAdd(u, i) /\ UNCHANGED <<xjVars, web_reply>>
    \/ \E t \in AllTids : CmdEnable(t, log) /\ UNCHANGED xjVars
    \/ \E t \in AllTids : CmdDisable(t) /\ UNCHANGED xjVars
    \/ \E t \in AllTids : CmdRemove(t) /\ UNCHANGED xjVars
    \/ \E c \in cmds : CmdStopResume(c) /\ UNCHANGED xjVars
    \/ \E t \in AllTids : CmdCheckNow(t) /\ UNCHANGED xjVars
    \/ \E c \in cmds, r \in FetchResults :
          CmdCheckDone(c, r, log) /\ UNCHANGED <<xjVars, fu>>
    \/ \E h \in AllLoops : LoopRun(h) /\ UNCHANGED xjVars
    \/ \E h \in AllLoops, r \in FetchResults :
          LoopFetchDone(h, r, log) /\ UNCHANGED xjVars
    \/ \E h \in AllLoops : LoopSendDone(h) /\ UNCHANGED xjVars
    \/ \E h \in AllLoops : LoopCancelled(h) /\ UNCHANGED xjVars

NextWeb == WebStep(FALSE)

NextChecks == WebStep(TRUE)

\* Manual checks with their _fetch_url call attempt by attempt.
NextFetch ==
    \/ \E u \in Urls, i \in Intervals :
          CmdAdd(u, i) /\ UNCHANGED <<xjVars, web_reply>>
    \/ \E t \in AllTids : CmdCheckNow(t) /\ UNCHANGED xjVars
    \/ \E c \in cmds : FetchCall(c) /\ UNCHANGED xjVars
    \/ \E o \in FetchOutcomes : FetchGetDone(o) /\ UNCHANGED xjVars
    \/ FetchBackoffDone /\ UNCHANGED xjVars
    \/ \E c \in cmds : CheckFetched(c) /\ UNCHANGED xjVars

\* The commands that start and stop loops, and the loops' steps.
NextLoops ==
    \/ \E u \in Urls, i \in Intervals :
          CmdAdd(u, i) /\ UNCHANGED <<xjVars, web_reply>>
    \/ \E t \in AllTids : CmdEnable(t, TRUE) /\ UNCHANGED xjVars
    \/ \E t \in AllTids : CmdDisable(t) /\ UNCHANGED xjVars
    \/ \E t \in AllTids : CmdRemove(t) /\ UNCHANGED xjVars
    \/ \E c \in cmds : CmdStopResume(c) /\ UNCHANGED xjVars
    \/ \E h \in AllLoops : LoopRun(h) /\ UNCHANGED xjVars
    \/ \E h \in AllLoops, r \in FetchResults :
          LoopFetchDone(h, r, FALSE) /\ UNCHANGED xjVars
    \/ \E h \in AllLoops : LoopSendDone(h) /\ UNCHANGED xjVars
    \/ \E h \in AllLoops : LoopCancelled(h) /\ UNCHANGED xjVars

-----------------------------------------------------------------------------
(***************************************************************************)
(*                              XJEduPlugin                                *)
(* The host's KV store (get_kv_data / put_kv_data) is read and written     *)
(* without yielding; the awaits that yield are the HTTP fetches, the AI    *)
(* call and send_message.                                                  *)
(***************************************************************************)
LedgerCap == 200
ErrorsCap == 200
DaysThreshold == 3
NumPageIds == 2
MaxErrors == 1
MaxRemindLog == 2
LastDay == 33
MaxRenders == 2
MaxMinute == 4

\* Notice ids (URLs): 1..LedgerCap-1 are old notices no longer listed; the
\* list pages show some of PageIds, newest first.
PageIds == LedgerCap..(LedgerCap + NumPageIds - 1)

RECURSIVE NewestFirst(_)
NewestFirst(S) ==
    IF S = {} THEN <<>>
    ELSE LET m == CHOOSE x \in S : \A y \in S : y <= x
         IN <<m>> \o NewestFirst(S \ {m})

\* _fetch_competition_list: the parsed items, one per id; [] when nothing
\* could be fetched.
PageLists == {NewestFirst(S) : S \in SUBSET PageIds}

Sessions == {"s1", "s2"}

\* list[-n:]
LastNKeepFirst(s, n) == IF Len(s) <= n THEN s ELSE SubSeq(s, 1, n)
LastN(s, n) ==
    IF Len(s) <= n THEN s ELSE SubSeq(s, Len(s) - n + 1, Len(s))

\* ---- dates ----
\* Days are days of the year 2026 (Jan 31 = 31, Feb 1 = 32, Feb 3 = 34,
\* Mar 1 = 60);
\* NoDay stands for None.
NoDay == 0
NonString == "#20260201"     \* a JSON number where a date string is expected
AiDateValues == {None, "2026-02-01", "2026/3/1", "tbd", NonString}

\* _parse_date
ParseDate(date_str) ==
    CASE date_str = "2026-02-01"  -> 32
      [] date_str = "2026-02-03"  -> 34
      [] date_str = "2026/3/1"    -> 60
      [] OTHER                    -> NoDay

\* datetime.isoformat() of a parsed date, and None for None
IsoFormat(d) ==
    CASE d = 32 -> "2026-02-01T00:00:00"
      [] d = 34 -> "2026-02-03T00:00:00"
      [] d = 60 -> "2026-03-01T00:00:00"
      [] OTHER  -> None

\* datetime.fromisoformat(s) if s else None
FromIso(s) ==
    CASE s = "2026-02-01T00:00:00" -> 32
      [] s = "2026-02-03T00:00:00" -> 34
      [] s = "2026-03-01T00:00:00" -> 60
      [] OTHER                     -> NoDay

\* now.isoformat() at 09:00 of day d
NowIso(d) ==
    CASE d = 31 -> "2026-01-31T09:00:30"
      [] d = 32 -> "2026-02-01T09:00:30"
      [] d = 33 -> "2026-02-02T09:00:30"
      [] OTHER  -> "2026-02-03T09:00:30"

\* s[:10]
First10(s) ==
    CASE s = "2026-02-01T00:00:00" -> "2026-02-01"
      [] s = "2026-02-03T00:00:00" -> "2026-02-03"
      [] s = "2026-03-01T00:00:00" -> "2026-03-01"
      [] s = "2026-01-31T09:00:30" -> "2026-01-31"
      [] s = "2026-02-01T09:00:30" -> "2026-02-01"
      [] s = "2026-02-02T09:00:30" -> "2026-02-02"
      [] s = "2026-02-03T09:00:30" -> "2026-02-03"
      [] OTHER -> s

\* now.date().isoformat()
TodayStr(d) == First10(NowIso(d))

\* The list page's date span of every listed notice.
PostTime == "2026-02-01"

\* ---- the AI reply ----
\* ok = FALSE: no usable reply (no api_key, HTTP error, unparseable text).
NoReply == [ok |-> FALSE, is_registration |-> FALSE, start_date |-> None,
            end_date |-> None]
AiReplies ==
    {NoReply} \cup [ok : {TRUE}, is_registration : BOOLEAN,
                    start_date : AiDateValues, end_date : AiDateValues]

\* _ai_extract_competition: None when the switch is off.
AiExtractCompetition(enabled, reply) == IF enabled THEN reply ELSE NoReply

\* ai_res.get(key) is truthy, so _parse_date is called on it
Given(v) == v # None
\* _parse_date calls .strip() on its argument: AttributeError on a non-string
Raises(ai_res) ==
    \/ ai_res.start_date = NonString
    \/ ai_res.end_date = NonString

NoComp == [id |-> 0, is_registration |-> FALSE, start_date |-> None,
           end_date |-> None, last_remind |-> None]

\* lines 503-525 (and 400-421): the comp record built from the AI reply;
\* hinted: the body contains the phrase that makes the list date the start.
BuildComp(id, ai_res, hinted) ==
    LET is_reg == ai_res.is_registration
        tw_start == IF Given(ai_res.start_date)
                    THEN ParseDate(ai_res.start_date) ELSE NoDay
        tw_end == IF Given(ai_res.end_date)
                  THEN ParseDate(ai_res.end_date) ELSE NoDay
        start == IF is_reg /\ tw_start = NoDay /\ hinted
                     /\ ParseDate(PostTime) # NoDay
                 THEN ParseDate(PostTime) ELSE tw_start
    IN [id |-> id, is_registration |-> is_reg,
        start_date |-> IsoFormat(start), end_date |-> IsoFormat(tw_end),
        last_remind |-> None]

\* lines 529-540: the two anomaly tests and their conjunction with the flag
SameDay(comp) ==
    /\ comp.start_date # None
    /\ comp.end_date # None
    /\ First10(comp.start_date) = First10(comp.end_date)
EndBeforeStart(comp) ==
    /\ FromIso(comp.start_date) # NoDay
    /\ FromIso(comp.end_date) # NoDay
    /\ FromIso(comp.end_date) < FromIso(comp.start_date)
AnomalousNever(comp) == FALSE
Anomalous(comp) ==
    comp.is_registration /\ (SameDay(comp) \/ EndBeforeStart(comp))

ErrorEntry(comp) ==
    [id |-> comp.id,
     reason |-> IF SameDay(comp) THEN "start_equals_end"
                ELSE "end_before_start",
     start_date |-> comp.start_date, end_date |-> comp.end_date]

\* errors[-200:] (lines 446 and 550): what is saved of the appended list
ErrorsKeptAll(errs) == errs
ErrorsKept(errs) == LastN(errs, ErrorsCap)

\* lines 527-552: the errors list after one item
RecordError(errs, comp) ==
    IF Anomalous(comp)
    THEN ErrorsKept(Append(errs, ErrorEntry(comp)))
    ELSE errs

\* Entries that earlier runs left in the KV "errors": their dates are of a
\* year no notice of this run carries.
OldDate == "2025-01-01T00:00:00"
OldErrors(n) ==
    [i \in 1..n |-> [id |-> i, reason |-> "start_equals_end",
                     start_date |-> OldDate, end_date |-> OldDate]]

\* The model admits an anomalous notice only while this run has recorded few.
RoomForError ==
    Cardinality({i \in DOMAIN errors : errors[i].start_date # OldDate})
        < MaxErrors

\* tw["end"] > _now(): the end date's midnight lies after now
EndAfterNow(comp, day) == FromIso(comp.end_date) > day

\* line 554: _check_and_push keeps a registration still open or without end
KeepInKbCheck(comp, day) ==
    comp.is_registration
    /\ (comp.end_date = None \/ EndAfterNow(comp, day))
\* line 449: _initial_sync keeps a registration with an end still open
KeepInKbInit(comp, day) ==
    comp.is_registration /\ comp.end_date # None /\ EndAfterNow(comp, day)

\* lines 556-557: replace the entry of the same id
KbPutAppending(kb, comp) == Append(kb, comp)
KbPut(kb, comp) ==
    Append(SelectSeq(kb, LAMBDA k : k.id # comp.id), comp)

\* line 491: the listed items whose id is not in the ledger read
NewItemsAll(items, last_ids) == items
NewItems(items, last_ids) ==
    SelectSeq(items, LAMBDA i : i \notin Range(last_ids))

\* cmd_subscribe / cmd_unsubscribe: the list saved
SubscribeAlways(subs, sess) == Append(subs, sess)
Subscribe(subs, sess) ==
    IF sess \in Range(subs) THEN subs ELSE Append(subs, sess)
Unsubscribe(subs, sess) ==
    IF sess \notin Range(subs) THEN subs
    ELSE SelectSeq(subs, LAMBDA x : x # sess)

\* _save_store_file
StoreOf(ids, kb, errs) ==
    [exists |-> TRUE, last_seen_ids |-> ids, competitions |-> kb,
     errors |-> errs]
NoStore == [exists |-> FALSE, last_seen_ids |-> <<>>, competitions |-> <<>>,
            errors |-> <<>>]

CheckPasses == {"periodic", "manual"}

IdlePass == [pc |-> "idle", items |-> <<>>, new_items |-> <<>>, k |-> 0,
             last_ids |-> <<>>, subscribers |-> <<>>, kb |-> <<>>,
             comp |-> NoComp, sent |-> <<>>]
IdleSync == [pc |-> "idle", pending |-> <<>>, k |-> 0, last_ids |-> <<>>,
             kb |-> <<>>, updated |-> FALSE]
IdleRemind == [pc |-> "idle", subscribers |-> <<>>, kb |-> <<>>, k |-> 0,
               day |-> 0, sent |-> <<>>]

\* The loops that initialize starts as tasks (lines 169-170).
BgLoops == {"periodic", "remind"}

\* The caller l of a pass resumes from its await: a loop's task does so only
\* while no cancellation of it is pending (a command's handler always does).
Resumes(l) == l \in BgLoops => bgloops[l] = "alive"

\* `while self._running` (lines 464, 473): a loop begins another iteration.
ScheduledUntilDone(l) == l \in BgLoops => bgloops[l] # "done"
Scheduled(l) == l \in BgLoops => running /\ bgloops[l] = "alive"

\* No list fetch of a check pass has returned yet.
NotListed == <<0>>

\* The KV store outlives the process: a start finds no subscriber or one, and
\* the ledger empty or holding the ids of old notices (_load_store_file).
History(n) == [i \in 1..n |-> i]

InitXJ ==
    /\ today = 31
    /\ ai_use = TRUE
    /\ subscribers \in {<<>>, <<"s1">>}
    /\ \E n \in {0, LedgerCap - 1, LedgerCap} :
          /\ last_seen_ids = History(n)
          /\ store_file = IF n = 0 THEN NoStore
                          ELSE StoreOf(History(n), <<>>, <<>>)
    /\ competitions = <<>>
    /\ errors \in {<<>>, OldErrors(ErrorsCap - 1), OldErrors(ErrorsCap)}
    /\ cp = [p \in CheckPasses |-> IdlePass]
    /\ isync = IdleSync
    /\ rp = IdleRemind
    /\ reminded = <<>>
    /\ classified = NoComp
    /\ cmd_reply = "none"
    /\ listed = NotListed
    /\ raised = {}
    /\ pushed = {}
    /\ nulled = {}
    /\ after_reset = FALSE
    /\ challenge_warned = FALSE
    /\ renders = 0
    /\ running = TRUE
    /\ check_task = "periodic"
    /\ bgloops = [l \in BgLoops |-> "alive"]
    /\ minute = 0
    /\ rl = [pc |-> "sleep", wake |-> 0, fired |-> 0]

\* _load_store_file (lines 349-368) at the next start: the ledger and the KB
\* of the store file, where it has any, replace those of the KV.
LoadStoreFile(file, ids, kb) ==
    [last_seen_ids |-> IF file.exists /\ file.last_seen_ids # <<>>
                       THEN file.last_seen_ids ELSE ids,
     competitions |-> IF file.exists /\ file.competitions # <<>>
                      THEN file.competitions ELSE kb]

\* cmd_subscribe
CmdSubscribe(sess) ==
    /\ subscribers' = Subscribe(subscribers, sess)
    /\ cmd_reply' = IF sess \in Range(subscribers) THEN "already subscribed"
                    ELSE "subscribed"
    /\ UNCHANGED <<today, ai_use, last_seen_ids, competitions, errors,
                   store_file, cp, isync, rp, reminded, classified, listed,
                   raised, pushed, nulled, after_reset, bgVars>>

\* cmd_unsubscribe
CmdUnsubscribe(sess) ==
    /\ subscribers' = Unsubscribe(subscribers, sess)
    /\ cmd_reply' = IF sess \notin Range(subscribers) THEN "not subscribed"
                    ELSE "unsubscribed"
    /\ UNCHANGED <<today, ai_use, last_seen_ids, competitions, errors,
                   store_file, cp, isync, rp, reminded, classified, listed,
                   raised, pushed, nulled, after_reset, bgVars>>

\* cmd_ai_toggle with mode on / off
CmdAiToggle(flag) ==
    /\ ai_use' = flag
    /\ UNCHANGED <<today, subscribers, last_seen_ids, competitions, errors,
                   store_file, cp, isync, rp, reminded, classified, cmd_reply,
                   listed, raised, pushed, nulled, after_reset, bgVars>>

\* cmd_reset (after_reset is left to the caller)
CmdReset ==
    /\ last_seen_ids' = <<>>
    /\ competitions' = <<>>
    /\ errors' = <<>>
    /\ store_file' = NoStore
    /\ UNCHANGED <<today, ai_use, subscribers, cp, isync, rp, reminded,
                   classified, cmd_reply, listed, raised, pushed, nulled,
                   bgVars>>

\* What sess.get may answer: a page, a page that carries the challenge
\* script, and a refusal.
HtmlResponses ==
    {[status |-> 200, challenge |-> FALSE],
     [status |-> 200, challenge |-> TRUE],
     [status |-> 403, challenge |-> FALSE],
     [status |-> 429, challenge |-> FALSE]}

\* _fetch_html line 647
Challenged(resp) == resp.challenge \/ resp.status \in {403, 429}

\* One _fetch_html call (lines 632-659) made by a check pass for the list
\* pages or for a detail page: a challenged response is warned about once
\* and handed to _fetch_html_playwright.
FetchHtml(p, resp) ==
    /\ cp[p].pc \in {"fetching", "classify"}
    /\ Resumes(p)
    /\ renders < MaxRenders
    /\ IF Challenged(resp)
       THEN /\ challenge_warned' = TRUE
            /\ renders' = renders + 1
       ELSE UNCHANGED <<challenge_warned, renders>>
    /\ UNCHANGED <<today, ai_use, subscribers, last_seen_ids, competitions,
                   errors, store_file, cp, isync, rp, reminded, classified,
                   cmd_reply, listed, raised, pushed, nulled, after_reset,
                   running, check_task, bgloops, minute, rl>>

\* _check_and_push is entered (by _periodic_check_loop or cmd_check) and
\* awaits _fetch_competition_list.
PassStart(p) ==
    /\ cp[p].pc = "idle"
    /\ Scheduled(p)
    /\ cp' = [cp EXCEPT ![p].pc = "fetching"]
    /\ UNCHANGED <<today, ai_use, subscribers, last_seen_ids, competitions,
                   errors, store_file, isync, rp, reminded, classified,
                   cmd_reply, listed, raised, pushed, nulled, after_reset,
                   bgVars>>

\* lines 484-495: the list arrived; read the KV snapshots, pick the new items
\* (listed and after_reset are left to the caller)
PassListFetched(p, items) ==
    /\ cp[p].pc = "fetching"
    /\ Resumes(p)
    /\ LET new_items == NewItems(items, last_seen_ids)
       IN cp' = [cp EXCEPT ![p] =
              IF items = <<>> \/ new_items = <<>> THEN IdlePass
              ELSE [pc |-> "classify", items |-> items,
                    new_items |-> new_items, k |-> 1,
                    last_ids |-> last_seen_ids,
                    subscribers |-> subscribers, kb |-> competitions,
                    comp |-> NoComp, sent |-> <<>>]]
    /\ UNCHANGED <<today, ai_use, subscribers, last_seen_ids, competitions,
                   errors, store_file, isync, rp, reminded, classified,
                   cmd_reply, raised, pushed, nulled, bgVars>>

\* line 567: the ids that extend the ledger read, those of all new items
SeenExtensionClassified(p) ==
    SelectSeq(cp[p].new_items, LAMBDA i : i \notin nulled)
SeenExtension(p) == cp[p].new_items

\* line 567: the list that is extended, the one read at line 487
LedgerBaseStored(p) == last_seen_ids
LedgerBase(p) == cp[p].last_ids

\* The rest of the for loop after item k is done with local KB kbl and the
\* errors list errs in the KV: the next item's fetch, or lines 566-570.
PassAdvance(p, kbl, errs) ==
    IF cp[p].k < Len(cp[p].new_items)
    THEN /\ cp' = [cp EXCEPT ![p].pc = "classify", ![p].k = cp[p].k + 1,
                             ![p].kb = kbl, ![p].comp = NoComp,
                             ![p].sent = <<>>]
         /\ errors' = errs
         /\ UNCHANGED <<last_seen_ids, competitions, store_file>>
    ELSE LET ids == LastN(LedgerBase(p) \o SeenExtension(p), LedgerCap)
         IN /\ last_seen_ids' = ids
            /\ competitions' = kbl
            /\ errors' = errs
            /\ store_file' = StoreOf(ids, kbl, errs)
            /\ cp' = [cp EXCEPT ![p] = IdlePass]

\* _broadcast_competition lines 574-575: only a registration is pushed.
PushesAny(comp) == TRUE
Pushes(comp) == comp.is_registration

\* lines 496-561 for item k, from the AI call's return to the first send (or
\* to the end of the item when nothing is sent). (raised and nulled are left
\* to the caller.)
PassClassified(p, reply, hinted) ==
    /\ cp[p].pc = "classify"
    /\ Resumes(p)
    /\ LET ai_res == AiExtractCompetition(ai_use, reply)
           comp == BuildComp(cp[p].new_items[cp[p].k], ai_res, hinted)
           errs == RecordError(errors, comp)
           kbl == IF KeepInKbCheck(comp, today) THEN KbPut(cp[p].kb, comp)
                  ELSE cp[p].kb
       IN /\ classified' = IF ai_res.ok /\ ~Raises(ai_res) THEN comp
                            ELSE NoComp
          /\ IF ~ai_res.ok
             THEN PassAdvance(p, cp[p].kb, errors)
             ELSE IF Raises(ai_res)
             THEN /\ cp' = [cp EXCEPT ![p] = IdlePass]
                  /\ UNCHANGED <<last_seen_ids, competitions, errors,
                                 store_file>>
             ELSE IF Anomalous(comp) /\ ~RoomForError
             THEN FALSE
             ELSE IF Pushes(comp) /\ cp[p].subscribers # <<>>
             THEN /\ cp' = [cp EXCEPT ![p].pc = "sending", ![p].kb = kbl,
                                      ![p].comp = comp]
                  /\ errors' = errs
                  /\ UNCHANGED <<last_seen_ids, competitions, store_file>>
             ELSE PassAdvance(p, kbl, errs)
    /\ UNCHANGED <<today, ai_use, subscribers, isync, rp, reminded, cmd_reply,
                   listed, pushed, after_reset, bgVars>>

\* The ids that check passes got no classification for, after pass p had
\* reply for its current item (`if not ai_res: continue`, lines 500-501).
NulledBy(p, reply) ==
    IF AiExtractCompetition(ai_use, reply).ok THEN nulled
    ELSE nulled \cup {cp[p].new_items[cp[p].k]}

\* `for sess in subscribers` with the try / except Exception around each send
\* (lines 591-595, 622-626): the loop is over when every subscriber of the
\* list was attempted. sent holds the attempts made so far.
FanOutOverOnFailure(subs, sent) ==
    \/ Len(sent) = Len(subs)
    \/ sent # <<>> /\ ~sent[Len(sent)].ok
FanOutOver(subs, sent) == Len(sent) = Len(subs)

\* One send_message of _broadcast_competition returns (ok) or raises.
\* (pushed is left to the caller.)
PassSend(p, ok) ==
    /\ cp[p].pc = "sending"
    /\ Resumes(p)
    /\ ~FanOutOver(cp[p].subscribers, cp[p].sent)
    /\ cp' = [cp EXCEPT ![p].sent =
                  Append(@, [sess |-> cp[p].subscribers[Len(@) + 1],
                             ok |-> ok])]
    /\ UNCHANGED <<today, ai_use, subscribers, last_seen_ids, competitions,
                   errors, store_file, isync, rp, reminded, classified,
                   cmd_reply, listed, raised, nulled, after_reset, bgVars>>

\* _broadcast_competition: every send of the fan-out returned or failed (the
\* sends are part of this step where PassSend is not used).
PassBroadcastDone(p) ==
    /\ cp[p].pc = "sending"
    /\ Resumes(p)
    /\ PassAdvance(p, cp[p].kb, errors)
    /\ UNCHANGED <<today, ai_use, subscribers, isync, rp, reminded, classified,
                   cmd_reply, listed, raised, pushed, nulled, after_reset,
                   bgVars>>

\* cmd_manual_init awaits its own _fetch_competition_list.
InitStart ==
    /\ isync.pc = "idle"
    /\ isync' = [isync EXCEPT !.pc = "fetch1"]
    /\ UNCHANGED <<today, ai_use, subscribers, last_seen_ids, competitions,
                   errors, store_file, cp, rp, reminded, classified, cmd_reply,
                   listed, raised, pushed, nulled, after_reset, bgVars>>

\* cmd_manual_init lines 937-941: nothing listed ends the command, else
\* _initial_sync awaits the list again.
InitListFetched(items) ==
    /\ isync.pc = "fetch1"
    /\ isync' = IF items = <<>> THEN IdleSync
                ELSE [isync EXCEPT !.pc = "fetch2"]
    /\ UNCHANGED <<today, ai_use, subscribers, last_seen_ids, competitions,
                   errors, store_file, cp, rp, reminded, classified, cmd_reply,
                   listed, raised, pushed, nulled, after_reset, bgVars>>

\* _initial_sync lines 454-458
SyncCommit(ids, kbl, updated, errs) ==
    /\ last_seen_ids' = IF ids # <<>> THEN LastN(ids, LedgerCap)
                        ELSE last_seen_ids
    /\ competitions' = IF updated THEN kbl ELSE competitions
    /\ errors' = errs
    /\ store_file' =
          IF updated
          THEN StoreOf(IF ids # <<>> THEN LastN(ids, LedgerCap)
                       ELSE last_seen_ids, kbl, errs)
          ELSE store_file
    /\ isync' = IdleSync

\* _initial_sync lines 384-392: the list arrived; items already in the
\* ledger are passed over without an await.
SyncListFetched(items) ==
    /\ isync.pc = "fetch2"
    /\ LET pending == NewItems(items, last_seen_ids)
       IN IF items = <<>>
          THEN /\ isync' = IdleSync
               /\ UNCHANGED <<last_seen_ids, competitions, errors,
                              store_file>>
          ELSE IF pending = <<>>
          THEN SyncCommit(last_seen_ids, competitions, FALSE, errors)
          ELSE /\ isync' = [pc |-> "classify", pending |-> pending, k |-> 1,
                            last_ids |-> last_seen_ids, kb |-> competitions,
                            updated |-> FALSE]
               /\ UNCHANGED <<last_seen_ids, competitions, errors,
                              store_file>>
    /\ UNCHANGED <<today, ai_use, subscribers, cp, rp, reminded, classified,
                   cmd_reply, listed, raised, pushed, nulled, after_reset,
                   bgVars>>

SyncAdvance(ids, kbl, updated, errs) ==
    IF isync.k < Len(isync.pending)
    THEN /\ isync' = [isync EXCEPT !.k = isync.k + 1, !.last_ids = ids,
                                   !.kb = kbl, !.updated = updated]
         /\ errors' = errs
         /\ UNCHANGED <<last_seen_ids, competitions, store_file>>
    ELSE SyncCommit(ids, kbl, updated, errs)

\* _initial_sync lines 393-453 for one item, from the AI call's return on;
\* an exception ends _initial_sync (lines 460-461) with nothing more saved.
SyncClassified(reply, hinted) ==
    /\ isync.pc = "classify"
    /\ LET ai_res == AiExtractCompetition(ai_use, reply)
           id == isync.pending[isync.k]
           comp == BuildComp(id, ai_res, hinted)
           errs == RecordError(errors, comp)
           keep == KeepInKbInit(comp, today)
           kbl == IF keep THEN KbPut(isync.kb, comp) ELSE isync.kb
       IN /\ classified' = IF ai_res.ok /\ ~Raises(ai_res) THEN comp
                            ELSE NoComp
          /\ IF ~ai_res.ok
             THEN SyncAdvance(isync.last_ids, isync.kb, isync.updated,
                              errors)
             ELSE IF Raises(ai_res)
             THEN /\ isync' = IdleSync
                  /\ UNCHANGED <<last_seen_ids, competitions, errors,
                                 store_file>>
             ELSE IF Anomalous(comp) /\ ~RoomForError
             THEN FALSE
             ELSE SyncAdvance(Append(isync.last_ids, id), kbl,
                              isync.updated \/ keep, errs)
    /\ UNCHANGED <<today, ai_use, subscribers, cp, rp, reminded, cmd_reply,
                   listed, raised, pushed, nulled, after_reset, bgVars>>

\* _send_deadline_reminders lines 603-612: the deadline of comp is today or
\* within the threshold.
DueWithEnd(comp, day) == comp.end_date # None
Due(comp, day) ==
    /\ comp.end_date # None
    /\ FromIso(comp.end_date) # NoDay
    /\ FromIso(comp.end_date) - day \in 0..DaysThreshold

\* lines 614-616: a reminder for comp went out on this calendar day.
AlreadyReminded(comp, day) ==
    comp.last_remind # None /\ First10(comp.last_remind) = TodayStr(day)

\* The next entry after position k the for loop sends a reminder for (0: none).
NextDue(kb, k, day) ==
    LET S == {i \in (k + 1)..Len(kb) :
                 Due(kb[i], day) /\ ~AlreadyReminded(kb[i], day)}
    IN IF S = {} THEN 0 ELSE CHOOSE i \in S : \A j \in S : i <= j

\* lines 629-630: the pass's list is saved over the KB.
RemindCommit(kb) ==
    /\ competitions' = kb
    /\ store_file' = StoreOf(last_seen_ids, kb, errors)
    /\ rp' = IdleRemind

\* _send_deadline_reminders is entered by _daily_deadline_remind_loop (of
\* this start of the plugin or of a later one) and runs up to its first send.
\* (rl is left to the caller, here and at the pass's end.)
RemindStart ==
    /\ rp.pc = "idle"
    /\ Scheduled("remind")
    /\ Len(reminded) < MaxRemindLog
    /\ IF competitions = <<>> \/ subscribers = <<>>
       THEN UNCHANGED <<competitions, store_file, rp>>
       ELSE LET k == NextDue(competitions, 0, today)
            IN IF k = 0
               THEN RemindCommit(competitions)
               ELSE /\ rp' = [pc |-> "sending", subscribers |-> subscribers,
                              kb |-> competitions, k |-> k, day |-> today,
                              sent |-> <<>>]
                    /\ UNCHANGED <<competitions, store_file>>
    /\ UNCHANGED <<today, ai_use, subscribers, last_seen_ids, errors, cp,
                   isync, reminded, classified, cmd_reply, listed, raised,
                   pushed, nulled, after_reset, bgRest>>

\* One send_message of a reminder's fan-out returns (ok) or raises.
RemindSend(ok) ==
    /\ rp.pc = "sending"
    /\ Resumes("remind")
    /\ ~FanOutOver(rp.subscribers, rp.sent)
    /\ rp' = [rp EXCEPT !.sent =
                  Append(@, [sess |-> rp.subscribers[Len(@) + 1], ok |-> ok])]
    /\ UNCHANGED <<today, ai_use, subscribers, last_seen_ids, competitions,
                   errors, store_file, cp, isync, reminded, classified,
                   cmd_reply, listed, raised, pushed, nulled, after_reset,
                   bgVars>>

\* lines 622-627: the fan-out of one reminder is over (its sends are part of
\* this step where RemindSend is not used); last_remind is set on the pass's
\* copy, and the loop goes on to the next send or to the save.
RemindSent ==
    /\ rp.pc = "sending"
    /\ Resumes("remind")
    /\ LET kb == [rp.kb EXCEPT ![rp.k].last_remind = NowIso(rp.day)]
           k == NextDue(kb, rp.k, rp.day)
       IN /\ reminded' = Append(reminded, <<rp.kb[rp.k].id, rp.day>>)
          /\ IF k = 0
             THEN RemindCommit(kb)
             ELSE /\ rp' = [rp EXCEPT !.kb = kb, !.k = k, !.sent = <<>>]
                  /\ UNCHANGED <<competitions, store_file>>
    /\ UNCHANGED <<today, ai_use, subscribers, last_seen_ids, errors, cp,
                   isync, classified, cmd_reply, listed, raised, pushed,
                   nulled, after_reset, bgRest>>

\* An exception escapes _send_deadline_reminders after the fan-out in
\* progress (the KV or _persona_wrap raises): nothing is saved, and
\* _daily_deadline_remind_loop logs it (lines 478-479) and sleeps.
RemindAborted ==
    /\ rp.pc = "sending"
    /\ Resumes("remind")
    /\ reminded' = Append(reminded, <<rp.kb[rp.k].id, rp.day>>)
    /\ rp' = IdleRemind
    /\ raised' = raised \cup {"remind"}
    /\ UNCHANGED <<today, ai_use, subscribers, last_seen_ids, competitions,
                   errors, store_file, cp, isync, classified, cmd_reply,
                   listed, pushed, nulled, after_reset, bgRest>>

\* task.cancel() of lines 176-178 and 183-184: a task that is not done has a
\* cancellation pending until it is next resumed.
CancelTasks(ts) ==
    [l \in BgLoops |-> IF l \in ts /\ bgloops[l] # "done" THEN "cancelling"
                       ELSE bgloops[l]]

\* cmd_stop_check / _stop_check_task (lines 181-188, 1001-1008)
CmdStopCheck ==
    /\ IF check_task # None /\ bgloops[check_task] # "done"
       THEN /\ bgloops' = CancelTasks({check_task})
            /\ check_task' = None
       ELSE UNCHANGED <<bgloops, check_task>>
    /\ UNCHANGED <<today, ai_use, subscribers, last_seen_ids, competitions,
                   errors, store_file, cp, isync, rp, reminded, classified,
                   cmd_reply, listed, raised, pushed, nulled, after_reset,
                   challenge_warned, renders, running, minute, rl>>

\* terminate (lines 174-179): self._remind_task is never reassigned.
Terminate ==
    /\ running
    /\ running' = FALSE
    /\ bgloops' = CancelTasks({check_task, "remind"})
    /\ UNCHANGED <<today, ai_use, subscribers, last_seen_ids, competitions,
                   errors, store_file, cp, isync, rp, reminded, classified,
                   cmd_reply, listed, raised, pushed, nulled, after_reset,
                   challenge_warned, renders, check_task, minute, rl>>

\* CancelledError is raised at the await where loop l is suspended, in its
\* pass or in its sleep; no except clause of the plugin catches it (it is no
\* Exception), so the pass is abandoned as it stands and the task ends.
BgCancelled(l) ==
    /\ bgloops[l] = "cancelling"
    /\ bgloops' = [bgloops EXCEPT ![l] = "done"]
    /\ IF l = "periodic"
       THEN cp' = [cp EXCEPT ![l] = IdlePass] /\ rp' = rp
       ELSE rp' = IdleRemind /\ cp' = cp
    /\ UNCHANGED <<today, ai_use, subscribers, last_seen_ids, competitions,
                   errors, store_file, isync, reminded, classified, cmd_reply,
                   listed, raised, pushed, nulled, after_reset,
                   challenge_warned, renders, running, check_task, minute,
                   rl>>

\* ---- _daily_deadline_remind_loop on the clock (lines 471-481) ----
\* `now.hour == hour and now.minute in (0, 1)` with hour = 9: minutes 1 and 2
\* of the clock, which starts at 08:59.
AtTargetTime(m) == m \in {1, 2}

\* asyncio.sleep(60) of line 481 and asyncio.sleep(120) of line 477, in minutes
LoopNap == 1
FiredNap == 2

\* Where the loop is once its iteration at minute m is over: asleep until
\* line 481 is done, after the sleep of line 477 when the pass returned; an
\* exception in the pass skips line 477 (lines 478-479).
NextWake(m, returned) ==
    IF returned THEN m + FiredNap + LoopNap ELSE m + LoopNap

\* The loop wakes outside the window and goes back to sleep.
RemindLoopSkip ==
    /\ rl.pc = "sleep" /\ rl.wake = minute
    /\ Scheduled("remind")
    /\ ~AtTargetTime(minute)
    /\ rl' = [rl EXCEPT !.wake = minute + LoopNap]
    /\ UNCHANGED <<today, ai_use, subscribers, last_seen_ids, competitions,
                   errors, store_file, cp, isync, rp, reminded, classified,
                   cmd_reply, listed, raised, pushed, nulled, after_reset,
                   bgRest>>

\* The loop wakes in the window and calls _send_deadline_reminders (the
\* caller adds RemindStart): the loop is in the pass, or asleep again when
\* the pass has returned at once.
RemindLoopFire ==
    /\ rl.pc = "sleep" /\ rl.wake = minute
    /\ AtTargetTime(minute)
    /\ rl' = IF rp'.pc = "idle"
             THEN [pc |-> "sleep", wake |-> NextWake(minute, TRUE),
                   fired |-> rl.fired + 1]
             ELSE [pc |-> "pass", wake |-> 0, fired |-> rl.fired + 1]

\* The pass that the loop awaits is over: it returned, or an exception left it.
RemindLoopResume(returned) ==
    /\ rl.pc = "pass"
    /\ rl' = IF rp'.pc = "idle"
             THEN [rl EXCEPT !.pc = "sleep",
                             !.wake = NextWake(minute, returned)]
             ELSE rl

\* A minute passes: no sleep of the loop ends late.
MinuteTick ==
    /\ minute < MaxMinute
    /\ rl.pc = "sleep" => rl.wake > minute
    /\ minute' = minute + 1
    /\ UNCHANGED <<today, ai_use, subscribers, last_seen_ids, competitions,
                   errors, store_file, cp, isync, rp, reminded, classified,
                   cmd_reply, listed, raised, pushed, nulled, after_reset,
                   challenge_warned, renders, running, check_task, bgloops,
                   rl>>

\* Midnight passes.
DayTick ==
    /\ today < LastDay
    /\ today' = today + 1
    /\ UNCHANGED <<ai_use, subscribers, last_seen_ids, competitions, errors,
                   store_file, cp, isync, rp, reminded, classified, cmd_reply,
                   listed, raised, pushed, nulled, after_reset, bgVars>>

\* No _check_and_push and no _initial_sync is in flight.
Quiet == isync.pc = "idle" /\ \A p \in CheckPasses : cp[p].pc = "idle"

\* Replies that carry no date: the ledger's evolution does not depend on more.
PlainReplies ==
    {NoReply,
     [ok |-> TRUE, is_registration |-> FALSE, start_date |-> None,
      end_date |-> None],
     [ok |-> TRUE, is_registration |-> FALSE, start_date |-> NonString,
      end_date |-> None]}

\* The AI switch and the reset command, and the periodic check and the manual
\* initialisation run one after the other (a command may run at any await of
\* a pass).
NextXJ ==
    \/ \E f \in BOOLEAN : CmdAiToggle(f) /\ UNCHANGED webVars
    \/ CmdReset /\ UNCHANGED <<webVars, after_reset>>
    \/ Quiet /\ PassStart("periodic") /\ UNCHANGED webVars
    \/ \E l \in PageLists :
          PassListFetched("periodic", l)
              /\ UNCHANGED <<webVars, listed, after_reset>>
    \/ \E r \in AiReplies, h \in BOOLEAN :
          PassClassified("periodic", r, h)
              /\ UNCHANGED <<webVars, raised, nulled>>
    \/ PassBroadcastDone("periodic") /\ UNCHANGED webVars
    \/ Quiet /\ InitStart /\ UNCHANGED webVars
    \/ \E l \in PageLists : InitListFetched(l) /\ UNCHANGED webVars
    \/ \E l \in PageLists : SyncListFetched(l) /\ UNCHANGED webVars
    \/ \E r \in AiReplies, h \in BOOLEAN :
          SyncClassified(r, h) /\ UNCHANGED webVars

\* A reply that announces an open registration.
OpenReplies ==
    {[ok |-> TRUE, is_registration |-> TRUE, start_date |-> "2026-02-01",
      end_date |-> "2026/3/1"]}

\* The subscriber commands, at any await of a manual check that finds open
\* registrations.
NextSubs ==
    \/ \E s \in Sessions : CmdSubscribe(s) /\ UNCHANGED webVars
    \/ \E s \in Sessions : CmdUnsubscribe(s) /\ UNCHANGED webVars
    \/ PassStart("manual") /\ UNCHANGED webVars
    \/ \E l \in PageLists :
          PassListFetched("manual", l)
              /\ UNCHANGED <<webVars, listed, after_reset>>
    \/ \E r \in OpenReplies :
          PassClassified("manual", r, FALSE)
              /\ UNCHANGED <<webVars, raised, nulled>>
    \/ PassBroadcastDone("manual") /\ UNCHANGED webVars

\* A reply that announces a registration closing on 2026-02-01.
DueReplies ==
    {[ok |-> TRUE, is_registration |-> TRUE, start_date |-> None,
      end_date |-> "2026-02-01"]}

\* The reminder pass next to the periodic check, over two days.
NextRemind ==
    \/ RemindStart /\ UNCHANGED <<webVars, rl>>
    \/ RemindSent /\ UNCHANGED <<webVars, rl>>
    \/ DayTick /\ UNCHANGED webVars
    \/ PassStart("periodic") /\ UNCHANGED webVars
    \/ \E l \in PageLists :
          PassListFetched("periodic", l)
              /\ UNCHANGED <<webVars, listed, after_reset>>
    \/ \E r \in DueReplies :
          PassClassified("periodic", r, FALSE)
              /\ UNCHANGED <<webVars, raised, nulled>>
    \/ PassBroadcastDone("periodic") /\ UNCHANGED webVars

\* Replies that date both ends of the window or the end alone, next to no
\* reply, a reply that makes _parse_date raise and one that is no
\* registration.
WindowReplies ==
    {NoReply,
     [ok |-> TRUE, is_registration |-> FALSE, start_date |-> NonString,
      end_date |-> None],
     [ok |-> TRUE, is_registration |-> FALSE, start_date |-> "2026/3/1",
      end_date |-> "2026-02-01"],
     [ok |-> TRUE, is_registration |-> TRUE, start_date |-> None,
      end_date |-> "2026-02-01"]}
    \cup [ok : {TRUE}, is_registration : {TRUE},
          start_date : {"2026-02-01", "2026/3/1"},
          end_date : {"2026-02-01", "2026/3/1"}]

\* The classifications of the periodic check and of the manual
\* initialisation, one after the other, on dated windows.
NextWindows ==
    \/ Quiet /\ PassStart("periodic") /\ UNCHANGED webVars
    \/ \E l \in PageLists :
          PassListFetched("periodic", l)
              /\ UNCHANGED <<webVars, listed, after_reset>>
    \/ \E r \in WindowReplies, h \in BOOLEAN :
          PassClassified("periodic", r, h)
              /\ UNCHANGED <<webVars, raised, nulled>>
    \/ PassBroadcastDone("periodic") /\ UNCHANGED webVars
    \/ Quiet /\ InitStart /\ UNCHANGED webVars
    \/ \E l \in PageLists : InitListFetched(l) /\ UNCHANGED webVars
    \/ \E l \in PageLists : SyncListFetched(l) /\ UNCHANGED webVars
    \/ \E r \in WindowReplies, h \in BOOLEAN :
          SyncClassified(r, h) /\ UNCHANGED webVars

\* Replies that date a registration's window as empty or as reversed, next
\* to one that is no registration.
AnomalyReplies ==
    {[ok |-> TRUE, is_registration |-> FALSE, start_date |-> None,
      end_date |-> None],
     [ok |-> TRUE, is_registration |-> TRUE, start_date |-> "2026-02-01",
      end_date |-> "2026-02-01"],
     [ok |-> TRUE, is_registration |-> TRUE, start_date |-> "2026/3/1",
      end_date |-> "2026-02-01"]}

\* The writers of the errors list, the periodic check and the manual
\* initialisation, over an errors list that earlier runs have filled.
NextErrors ==
    \/ Quiet /\ PassStart("periodic") /\ UNCHANGED webVars
    \/ \E l \in PageLists :
          PassListFetched("periodic", l)
              /\ UNCHANGED <<webVars, listed, after_reset>>
    \/ \E r \in AnomalyReplies :
          PassClassified("periodic", r, FALSE)
              /\ UNCHANGED <<webVars, raised, nulled>>
    \/ PassBroadcastDone("periodic") /\ UNCHANGED webVars
    \/ Quiet /\ InitStart /\ UNCHANGED webVars
    \/ \E l \in PageLists : InitListFetched(l) /\ UNCHANGED webVars
    \/ \E l \in PageLists : SyncListFetched(l) /\ UNCHANGED webVars
    \/ \E r \in AnomalyReplies : SyncClassified(r, FALSE) /\ UNCHANGED webVars

\* The two background loops with their passes, next to the stopcheck command
\* and terminate. (After terminate no loop reaches its `while self._running`
\* test: each task has a cancellation pending or is done.)
NextLifecycle ==
    \/ PassStart("periodic") /\ UNCHANGED webVars
    \/ \E l \in PageLists :
          PassListFetched("periodic", l)
              /\ UNCHANGED <<webVars, listed, after_reset>>
    \/ \E r \in DueReplies \cup {NoReply} :
          PassClassified("periodic", r, FALSE)
              /\ UNCHANGED <<webVars, raised, nulled>>
    \/ PassBroadcastDone("periodic") /\ UNCHANGED webVars
    \/ RemindStart /\ UNCHANGED <<webVars, rl>>
    \/ RemindSent /\ UNCHANGED <<webVars, rl>>
    \/ CmdStopCheck /\ UNCHANGED webVars
    \/ Terminate /\ UNCHANGED webVars
    \/ \E l \in BgLoops : BgCancelled(l) /\ UNCHANGED webVars

\* The event loop resumes a task whose cancellation is pending.
CancelDelivered == \E l \in BgLoops : BgCancelled(l) /\ UNCHANGED webVars

\* The reset command at any await of the check passes, periodic and manual,
\* over a list of registrations, with a ledger that the start restored.
NextReset ==
    \/ CmdReset /\ after_reset' = TRUE /\ UNCHANGED webVars
    \/ \E p \in CheckPasses : PassStart(p) /\ UNCHANGED webVars
    \/ \E p \in CheckPasses, l \in PageLists :
          PassListFetched(p, l) /\ listed' = l
              /\ after_reset' = (after_reset /\ l = <<>>)
              /\ UNCHANGED webVars
    \/ \E p \in CheckPasses, r \in OpenReplies :
          PassClassified(p, r, FALSE)
              /\ UNCHANGED <<webVars, raised, nulled>>
    \/ \E p \in CheckPasses : PassBroadcastDone(p) /\ UNCHANGED webVars

\* Replies that announce registrations closing on 2026-02-01, on 2026-02-03
\* and on 2026-03-01, and one that names no end date.
DeadlineReplies ==
    [ok : {TRUE}, is_registration : {TRUE}, start_date : {None},
     end_date : {None, "2026-02-01", "2026-02-03", "2026/3/1"}]

\* The reminder pass of each day after the check passes that fill the KB.
NextDeadlines ==
    \/ rp.pc = "idle" /\ PassStart("periodic") /\ UNCHANGED webVars
    \/ \E l \in PageLists :
          PassListFetched("periodic", l)
              /\ UNCHANGED <<webVars, listed, after_reset>>
    \/ \E r \in DeadlineReplies :
          PassClassified("periodic", r, FALSE)
              /\ UNCHANGED <<webVars, raised, nulled>>
    \/ PassBroadcastDone("periodic") /\ UNCHANGED webVars
    \/ Quiet /\ RemindStart /\ UNCHANGED <<webVars, rl>>
    \/ RemindSent /\ UNCHANGED <<webVars, rl>>
    \/ Quiet /\ rp.pc = "idle" /\ DayTick /\ UNCHANGED webVars

\* The reminder loop around 09:00 of one day, after the check pass that
\* fills the KB before the clock starts.
NextDaily ==
    \/ minute = 0 /\ PassStart("periodic") /\ UNCHANGED webVars
    \/ \E l \in PageLists :
          PassListFetched("periodic", l)
              /\ UNCHANGED <<webVars, listed, after_reset>>
    \/ \E r \in DueReplies :
          PassClassified("periodic", r, FALSE)
              /\ UNCHANGED <<webVars, raised, nulled>>
    \/ PassBroadcastDone("periodic") /\ UNCHANGED webVars
    \/ Quiet /\ RemindLoopSkip /\ UNCHANGED webVars
    \/ Quiet /\ RemindStart /\ RemindLoopFire /\ UNCHANGED webVars
    \/ RemindSent /\ RemindLoopResume(TRUE) /\ UNCHANGED webVars
    \/ RemindAborted /\ RemindLoopResume(FALSE) /\ UNCHANGED webVars
    \/ Quiet /\ MinuteTick /\ UNCHANGED webVars

\* The ledger's writers over a long history: both kinds of check pass (with
\* their broadcasts) and the manual initialisation, one after the other, and
\* the reset command.
NextLedger ==
    \/ CmdReset /\ UNCHANGED <<webVars, after_reset>>
    \/ \E p \in CheckPasses : Quiet /\ PassStart(p) /\ UNCHANGED webVars
    \/ \E p \in CheckPasses, l \in PageLists :
          PassListFetched(p, l)
              /\ UNCHANGED <<webVars, listed, after_reset>>
    \/ \E p \in CheckPasses, r \in PlainReplies \cup OpenReplies :
          PassClassified(p, r, FALSE)
              /\ nulled' = NulledBy(p, r)
              /\ UNCHANGED <<webVars, raised>>
    \/ \E p \in CheckPasses : PassBroadcastDone(p) /\ UNCHANGED webVars
    \/ Quiet /\ InitStart /\ UNCHANGED webVars
    \/ \E l \in PageLists : InitListFetched(l) /\ UNCHANGED webVars
    \/ \E l \in PageLists : SyncListFetched(l) /\ UNCHANGED webVars
    \/ \E r \in PlainReplies : SyncClassified(r, FALSE) /\ UNCHANGED webVars

\* The competition plugin is at rest with the KV store as it was loaded.
AsLoaded ==
    /\ Quiet
    /\ competitions = <<>>
    /\ errors = <<>>
    /\ \E n \in {0, LedgerCap - 1, LedgerCap} : last_seen_ids = History(n)

\* The watcher has not been used yet.
WatcherUnused == nextId = 1

\* Check passes of the competition plugin, and checks of the watcher. The
\* plugins share no state, so their steps commute: the passes come first, and
\* the watcher is used once they have left the store as loaded.
NextFailures ==
    \/ \E p \in CheckPasses :
          WatcherUnused /\ Quiet /\ PassStart(p) /\ UNCHANGED webVars
    \/ \E p \in CheckPasses, l \in PageLists :
          PassListFetched(p, l) /\ listed' = l
              /\ UNCHANGED <<webVars, after_reset>>
    \/ \E p \in CheckPasses, r \in PlainReplies \cup OpenReplies :
          PassClassified(p, r, FALSE)
              /\ UNCHANGED <<webVars, raised, nulled>>
    \/ \E p \in CheckPasses : PassBroadcastDone(p) /\ UNCHANGED webVars
    \/ \E u \in Urls, i \in Intervals :
          AsLoaded /\ CmdAdd(u, i) /\ UNCHANGED <<xjVars, web_reply>>
    \/ \E t \in AllTids : CmdCheckNow(t) /\ UNCHANGED xjVars
    \/ \E c \in cmds, r \in FetchResults :
          CmdCheckDone(c, r, TRUE) /\ UNCHANGED <<xjVars, fu>>
    \/ \E h \in AllLoops : LoopRun(h) /\ UNCHANGED xjVars
    \/ \E h \in AllLoops, r \in FetchResults :
          LoopFetchDone(h, r, TRUE) /\ UNCHANGED xjVars
    \/ \E h \in AllLoops : LoopSendDone(h) /\ UNCHANGED xjVars

-----------------------------------------------------------------------------
\* The fan-outs send by send: a check pass and the reminder pass, with
\* subscribers joining at any time.
NextFanOut ==
    \/ \E s \in Sessions : CmdSubscribe(s) /\ UNCHANGED webVars
    \/ PassStart("periodic") /\ UNCHANGED webVars
    \/ \E l \in PageLists :
          PassListFetched("periodic", l)
              /\ UNCHANGED <<webVars, listed, after_reset>>
    \/ \E r \in DueReplies :
          PassClassified("periodic", r, FALSE)
              /\ UNCHANGED <<webVars, raised, nulled>>
    \/ \E ok \in BOOLEAN : PassSend("periodic", ok)
              /\ UNCHANGED <<webVars, pushed>>
    \/ /\ FanOutOver(cp["periodic"].subscribers, cp["periodic"].sent)
       /\ PassBroadcastDone("periodic")
       /\ UNCHANGED webVars
    \/ RemindStart /\ UNCHANGED <<webVars, rl>>
    \/ \E ok \in BOOLEAN : RemindSend(ok) /\ UNCHANGED webVars
    \/ /\ FanOutOver(rp.subscribers, rp.sent)
       /\ RemindSent /\ UNCHANGED <<webVars, rl>>

\* The same with unsubscribe commands at any await of the passes.
NextUnsub ==
    \/ NextFanOut
    \/ \E s \in Sessions : CmdUnsubscribe(s) /\ UNCHANGED webVars

\* Intervals longer than the cooldown, and fetches that fail or return a page.
LongIntervals == {120}
SomeResults == {None, "a"}
\* A reply that makes _parse_date raise, and one that is due for a reminder.
ErrorReplies ==
    {[ok |-> TRUE, is_registration |-> FALSE, start_date |-> NonString,
      end_date |-> None],
     [ok |-> TRUE, is_registration |-> TRUE, start_date |-> None,
      end_date |-> "2026-02-01"]}

\* The loops of both plugins with the errors that escape their calls: the
\* competition plugin's passes first, then the watcher's loops on the clock.
NextCooldown ==
    \/ WatcherUnused /\ PassStart("periodic") /\ UNCHANGED webVars
    \/ \E l \in PageLists :
          PassListFetched("periodic", l)
              /\ UNCHANGED <<webVars, listed, after_reset>>
    \/ \E r \in ErrorReplies :
          /\ PassClassified("periodic", r, FALSE)
          /\ raised' = IF Raises(AiExtractCompetition(ai_use, r))
                       THEN raised \cup {"periodic"} ELSE raised
          /\ UNCHANGED <<webVars, nulled>>
    \/ PassBroadcastDone("periodic") /\ UNCHANGED webVars
    \/ WatcherUnused /\ RemindStart /\ UNCHANGED <<webVars, rl>>
    \/ RemindSent /\ UNCHANGED <<webVars, rl>>
    \/ RemindAborted /\ UNCHANGED <<webVars, rl>>
    \/ \E i \in LongIntervals :
          /\ AsLoaded
          /\ rp.pc = "idle"
          /\ CmdAdd("http://x", i)
          /\ UNCHANGED <<xjVars, web_reply>>
    \/ \E h \in AllLoops : Awake(h) /\ LoopRun(h) /\ UNCHANGED xjVars
    \/ \E h \in AllLoops, r \in SomeResults :
          LoopFetchDone(h, r, FALSE) /\ UNCHANGED xjVars
    \/ \E h \in AllLoops : LoopSendDone(h) /\ UNCHANGED xjVars
    \/ \E h \in AllLoops : LoopError(h) /\ UNCHANGED xjVars
    \/ ~WatcherUnused /\ Tick /\ UNCHANGED xjVars

\* The page fetches of the periodic check pass.
NextHtml ==
    \/ PassStart("periodic") /\ UNCHANGED webVars
    \/ \E resp \in HtmlResponses :
          FetchHtml("periodic", resp) /\ UNCHANGED webVars
    \/ \E l \in PageLists :
          PassListFetched("periodic", l)
              /\ UNCHANGED <<webVars, listed, after_reset>>
    \/ \E r \in PlainReplies :
          PassClassified("periodic", r, FALSE)
              /\ UNCHANGED <<webVars, raised, nulled>>

\* A manual and the periodic check pass side by side, send by send, on
\* notices of open registrations.
NextTwoPasses ==
    \/ \E p \in CheckPasses : PassStart(p) /\ UNCHANGED webVars
    \/ \E p \in CheckPasses, l \in PageLists :
          PassListFetched(p, l)
              /\ UNCHANGED <<webVars, listed, after_reset>>
    \/ \E p \in CheckPasses, r \in OpenReplies :
          PassClassified(p, r, FALSE)
              /\ UNCHANGED <<webVars, raised, nulled>>
    \/ \E p \in CheckPasses, ok \in BOOLEAN :
          /\ PassSend(p, ok)
          /\ pushed' = IF ok
                       THEN pushed \cup
                              {<<cp[p].comp.id,
                                 cp[p].subscribers[Len(cp[p].sent) + 1]>>}
                       ELSE pushed
          /\ UNCHANGED webVars
    \/ \E p \in CheckPasses :
          /\ FanOutOver(cp[p].subscribers, cp[p].sent)
          /\ PassBroadcastDone(p)
          /\ UNCHANGED webVars

\* The loops on the clock under the commands that start and stop them.
NextPacing ==
    \/ \E i \in LongIntervals :
          CmdAdd("http://x", i) /\ UNCHANGED <<xjVars, web_reply>>
    \/ \E t \in AllTids : CmdEnable(t, FALSE) /\ UNCHANGED xjVars
    \/ \E t \in AllTids : CmdDisable(t) /\ UNCHANGED xjVars
    \/ \E c \in cmds : CmdStopResume(c) /\ UNCHANGED xjVars
    \/ \E h \in AllLoops : Awake(h) /\ LoopRun(h) /\ UNCHANGED xjVars
    \/ \E h \in AllLoops, r \in SomeResults :
          LoopFetchDone(h, r, TRUE) /\ UNCHANGED xjVars
    \/ \E h \in AllLoops : LoopSendDone(h) /\ UNCHANGED xjVars
    \/ \E h \in AllLoops : LoopCancelled(h) /\ UNCHANGED xjVars
    \/ Tick /\ UNCHANGED xjVars

Init == InitWeb /\ InitXJ

\* A first start (no store file), and a start that restored a long ledger and
\* a subscriber.
NoErrors == errors = <<>>
InitFresh == Init /\ NoErrors /\ last_seen_ids = <<>> /\ subscribers = <<>>
InitSubscribed == Init /\ NoErrors /\ last_seen_ids = <<>>
InitRestored ==
    Init /\ NoErrors /\ last_seen_ids # <<>> /\ subscribers # <<>>
\* A start that finds the errors list of earlier runs at its cap or one short
InitErrorLog ==
    Init /\ ~NoErrors /\ last_seen_ids = <<>> /\ subscribers = <<"s1">>

\* Adds with every kind of argument, replies logged, among the other
\* commands and the loops' steps.
NextAdd ==
    \/ \E u \in AddUrls, i \in AddIntervals :
          /\ CmdAdd(u, i)
          /\ web_reply' = AddReply(u, i)
          /\ UNCHANGED xjVars
    \/ \E t \in AllTids : CmdDisable(t) /\ UNCHANGED xjVars
    \/ \E t \in AllTids : CmdRemove(t) /\ UNCHANGED xjVars
    \/ \E c \in cmds : CmdStopResume(c) /\ UNCHANGED xjVars
    \/ \E h \in AllLoops : LoopRun(h) /\ UNCHANGED xjVars
    \/ \E h \in AllLoops, r \in FetchResults :
          LoopFetchDone(h, r, FALSE) /\ UNCHANGED xjVars
    \/ \E h \in AllLoops : LoopSendDone(h) /\ UNCHANGED xjVars
    \/ \E h \in AllLoops : LoopCancelled(h) /\ UNCHANGED xjVars

SpecAdd == InitFresh /\ [][NextAdd]_vars

\* The loop's checks (logged) and sends, with sends that fail, next to manual
\* checks (not logged).
NextNotify ==
    \/ \E u \in Urls, i \in Intervals :
          CmdAdd(u, i) /\ UNCHANGED <<xjVars, web_reply>>
    \/ \E t \in AllTids : CmdCheckNow(t) /\ UNCHANGED xjVars
    \/ \E c \in cmds, r \in FetchResults :
          CmdCheckDone(c, r, FALSE) /\ UNCHANGED <<xjVars, fu>>
    \/ \E h \in AllLoops : LoopRun(h) /\ UNCHANGED xjVars
    \/ \E h \in AllLoops, r \in FetchResults :
          LoopFetchDone(h, r, TRUE) /\ UNCHANGED xjVars
    \/ \E h \in AllLoops : LoopSendDone(h) /\ UNCHANGED xjVars
    \/ \E h \in AllLoops : LoopError(h) /\ UNCHANGED xjVars

SpecNotify == InitFresh /\ [][NextNotify]_vars

SpecUnsub == InitSubscribed /\ [][NextUnsub]_vars

\* A start with one subscriber and a ledger one short of its cap.
InitStore ==
    /\ Init
    /\ NoErrors
    /\ subscribers = <<"s1">>
    /\ last_seen_ids = History(LedgerCap - 1)

\* The AI answers null or announces an open registration.
StoreReplies == {NoReply} \cup OpenReplies

\* The list page: not fetched, with one new notice, and with a second one
\* published above it.
StoreLists == {<<>>, <<LedgerCap>>, <<LedgerCap + 1, LedgerCap>>}

\* The _check_and_push and _initial_sync calls in flight.
InFlight ==
    Cardinality({p \in CheckPasses : cp[p].pc # "idle"})
       + (IF isync.pc = "idle" THEN 0 ELSE 1)

\* The writers of the ledger and the KB, any two of them interleaved at any
\* await: the periodic and the manual check pass, the init pass, and reset.
NextStore ==
    \/ CmdReset /\ UNCHANGED <<webVars, after_reset>>
    \/ \E p \in CheckPasses :
          InFlight < 2 /\ PassStart(p) /\ UNCHANGED webVars
    \/ \E p \in CheckPasses, l \in StoreLists :
          PassListFetched(p, l)
              /\ UNCHANGED <<webVars, listed, after_reset>>
    \/ \E p \in CheckPasses, r \in StoreReplies :
          PassClassified(p, r, FALSE)
              /\ UNCHANGED <<webVars, raised, nulled>>
    \/ \E p \in CheckPasses : PassBroadcastDone(p) /\ UNCHANGED webVars
    \/ InFlight < 2 /\ InitStart /\ UNCHANGED webVars
    \/ \E l \in {<<>>, <<LedgerCap>>} :
          InitListFetched(l) /\ UNCHANGED webVars
    \/ \E l \in StoreLists : SyncListFetched(l) /\ UNCHANGED webVars
    \/ \E r \in StoreReplies :
          SyncClassified(r, FALSE) /\ UNCHANGED webVars

SpecStore == InitStore /\ [][NextStore]_vars

\* Restarts among the commands and the first check of each loop.
NextRestart ==
    \/ Restart /\ UNCHANGED xjVars
    \/ \E u \in Urls, i \in Intervals :
          /\ CmdAdd(u, i)
          /\ web_reply' = AddReply(u, i)
          /\ UNCHANGED xjVars
    \/ \E t \in AllTids : CmdEnable(t, TRUE) /\ UNCHANGED xjVars
    \/ \E t \in AllTids : CmdDisable(t) /\ UNCHANGED xjVars
    \/ \E c \in cmds : CmdStopResume(c) /\ UNCHANGED xjVars
    \/ \E h \in AllLoops :
          loops[h].pc = "new" /\ LoopRun(h) /\ UNCHANGED xjVars
    \/ \E h \in AllLoops, r \in FetchResults :
          LoopFetchDone(h, r, TRUE) /\ UNCHANGED xjVars
    \/ \E h \in AllLoops : LoopSendDone(h) /\ UNCHANGED xjVars
    \/ \E h \in AllLoops : LoopCancelled(h) /\ UNCHANGED xjVars

SpecRestart == InitFresh /\ [][NextRestart]_vars

SpecWeb == InitFresh /\ [][NextWeb]_vars

SpecChecks == InitFresh /\ [][NextChecks]_vars

SpecLoops == InitFresh /\ [][NextLoops]_vars

SpecFetch == InitFresh /\ [][NextFetch]_vars

SpecHtml == InitSubscribed /\ [][NextHtml]_vars

SpecTwoPasses == InitSubscribed /\ [][NextTwoPasses]_vars

SpecPacing == InitFresh /\ [][NextPacing]_vars

SpecFanOut == InitSubscribed /\ [][NextFanOut]_vars

SpecCooldown == InitRestored /\ [][NextCooldown]_vars

SpecFailures == InitRestored /\ [][NextFailures]_vars

SpecErrors == InitErrorLog /\ [][NextErrors]_vars

SpecLifecycle == InitSubscribed /\ [][NextLifecycle]_vars

SpecShutdown ==
    InitSubscribed /\ [][NextLifecycle]_vars /\ WF_vars(CancelDelivered)

SpecReset == InitRestored /\ [][NextReset]_vars

SpecDeadlines == InitSubscribed /\ [][NextDeadlines]_vars

SpecDaily == InitSubscribed /\ [][NextDaily]_vars

SpecXJ == InitSubscribed /\ [][NextXJ]_vars

SpecSubs == InitFresh /\ [][NextSubs]_vars

SpecLedger == InitRestored /\ [][NextLedger]_vars

SpecRemind == InitSubscribed /\ [][NextRemind]_vars

SpecWindows == InitSubscribed /\ [][NextWindows]_vars

-----------------------------------------------------------------------------
(***************************************************************************)
(*                     Properties of WebUpdaterPlugin                      *)
(***************************************************************************)

\* C1: the first fetch of a resource that returns a page (last_hash still
\* empty) stores the page's hash as the baseline and yields no notification:
\* check_update returns nothing, so the loop pushes nothing.
C1_FirstFetchSilent ==
    (Truthy(lastCheck.fetched) /\ lastCheck.prev_hash = "")
        => /\ lastCheck.new_hash = CalculateHash(lastCheck.fetched)
           /\ lastCheck.ret = None

\* C2: for a fetch that succeeded (status 200) on a resource with a stored
\* hash, check_update returns a notification exactly when the hash of the
\* fetched body differs from the stored one; last_hash then becomes the new
\* hash, and is unchanged when the hashes are equal.
C2_NotifyIffHashDiffers ==
    (lastCheck.fetched # None /\ lastCheck.prev_hash # "")
        => LET content_hash == CalculateHash(lastCheck.fetched)
           IN /\ (lastCheck.ret # None) <=> (content_hash # lastCheck.prev_hash)
              /\ content_hash # lastCheck.prev_hash
                    => lastCheck.new_hash = content_hash
              /\ content_hash = lastCheck.prev_hash
                    => lastCheck.new_hash = lastCheck.prev_hash

\* C10: a loop whose resource was disabled or removed while the loop slept
\* between checks never leaves that sleep for another check (no fetch, no
\* send), and it has terminated once the command that stopped it is over.
C10_CancelledWhileSleeping ==
    \A h \in AllLoops :
        loops[h].asleep
            => /\ loops[h].pc \in {"sleep", "done"}
               /\ (\A c \in cmds : c.loop # h) => loops[h].pc = "done"

\* A disable or remove command that caught the loop asleep has completed.
C10_LoopStopped ==
    \E h \in AllLoops :
        loops[h].asleep /\ loops[h].pc = "done" /\ cmds = {}

-----------------------------------------------------------------------------
\* C11: a resource has at most one monitoring loop that can still run, and it
\* is the registered one; a loop is spawned only for an id with no registered
\* loop; enable replies "enabled" only for a task that was disabled, and an
\* enable that replies "already enabled" changes nothing.
C11_EnableIdempotent ==
    /\ [](\A t \in AllTids :
             LET live == {h \in AllLoops :
                             /\ loops[h].tid = t
                             /\ loops[h].pc \notin {"unused", "done"}
                             /\ ~CancelPending(h)}
             IN /\ Cardinality(live) <= 1
                /\ \A h \in live : running_tasks[t] = h)
    /\ [][/\ nextLoop' # nextLoop =>
               \E t \in AllTids : /\ running_tasks[t] = 0
                                  /\ running_tasks'[t] = nextLoop
          /\ (web_reply' # web_reply /\ web_reply' = "enabled") =>
               \E t \in tasks : ~tobj[t].enabled /\ tobj'[t].enabled
          /\ (web_reply' # web_reply /\ web_reply' = "already enabled") =>
               UNCHANGED <<tasks, tobj, nextId, running_tasks, loops,
                           nextLoop, cmds, tasks_file>>
         ]_vars

\* An enable of an enabled resource whose loop is running was answered.
C11_EnabledTwice ==
    /\ web_reply = "already enabled"
    /\ \E t \in tasks : /\ tobj[t].enabled
                         /\ running_tasks[t] # 0
                         /\ loops[running_tasks[t]].pc = "fetch"

\* C12: for one resource, at most one check_update call is in progress: the
\* loops suspended in their fetch (and not cancelled) and the manual check
\* commands suspended in theirs number at most one.
C12_ChecksNeverOverlap ==
    \A t \in AllTids :
        Cardinality({h \in AllLoops : /\ loops[h].tid = t
                                      /\ loops[h].pc = "fetch"
                                      /\ ~loops[h].cancel})
        + Cardinality({c \in cmds : c.kind = "check" /\ c.tid = t}) <= 1

\* C13: a _fetch_url call makes at most MaxRetries gets; every get but the
\* last ended in a timeout; Backoff seconds were slept before each get after
\* the first and none after the last; the call returns the body of a 200
\* response and None otherwise, at once on a status or another exception and
\* after MaxRetries gets on timeouts.
C13_BoundedRetry ==
    LET n == Len(fu.outcomes)
        over == fu.pc = "returned" \/ (fu.pc = "idle" /\ n > 0)
    IN /\ n <= MaxRetries
       /\ \A i \in 1..(n - 1) : fu.outcomes[i].kind = "timeout"
       /\ fu.waited = Backoff * fu.attempt
       /\ fu.pc = "get" => fu.attempt = n
       /\ fu.pc = "backoff" => /\ fu.attempt = n - 1
                               /\ n < MaxRetries
                               /\ fu.outcomes[n].kind = "timeout"
       /\ over => /\ fu.attempt = n - 1
                  /\ fu.outcomes[n].kind = "timeout" => n = MaxRetries
                  /\ fu.result = IF fu.outcomes[n].kind = "ok"
                                 THEN fu.outcomes[n].text ELSE None

\* A call gave up after MaxRetries timeouts.
C13_GaveUpOnTimeouts ==
    /\ fu.pc = "returned"
    /\ Len(fu.outcomes) = MaxRetries
    /\ fu.outcomes[MaxRetries].kind = "timeout"
    /\ fu.waited = Backoff * (MaxRetries - 1)

\* C14: a check_update call whose _fetch_url returned None returns None and
\* leaves every task object and tasks.json as they were (the loop goes to
\* its sleep); a check pass whose list fetch returned nothing ends there and
\* leaves the ledger, the KB, the errors list, the store file and the
\* subscribers as they were, with no send begun.
C14_FailureIsNoUpdate ==
    [][/\ \A h \in AllLoops :
             (/\ loops[h].pc = "fetch"
              /\ loops'[h].pc # "fetch"
              /\ lastCheck'.fetched = None)
                 => /\ lastCheck'.ret = None
                    /\ loops'[h].pc = "sleep"
                    /\ UNCHANGED <<tobj, tasks, tasks_file>>
       /\ ((\E c \in cmds : c.kind = "check" /\ c \notin cmds')
               /\ lastCheck'.fetched = None)
              => /\ lastCheck'.ret = None
                 /\ UNCHANGED <<tobj, tasks, tasks_file, loops>>
       /\ \A p \in CheckPasses :
             (cp[p].pc = "fetching" /\ cp'[p].pc # "fetching"
                 /\ listed' = <<>>)
                 => /\ cp'[p] = IdlePass
                    /\ UNCHANGED <<last_seen_ids, competitions, errors,
                                   store_file, subscribers, reminded>>
      ]_vars

\* A pass found nothing listed while the ledger held ids, and later a check
\* of a resource with a stored hash failed to fetch.
C14_BothFailed ==
    /\ listed = <<>>
    /\ last_seen_ids # <<>>
    /\ lastCheck.fetched = None
    /\ lastCheck.prev_hash # ""

(***************************************************************************)
(*                        Properties of XJEduPlugin                        *)
(***************************************************************************)

\* C3: in passes that follow one another, no item that a pass classifies or
\* broadcasts has its id in last_seen_ids: an id in the ledger is skipped.
C3_SeenIdsSkipped ==
    \A p \in CheckPasses :
        cp[p].pc \in {"classify", "sending"}
            => \A i \in DOMAIN cp[p].new_items :
                   cp[p].new_items[i] \notin Range(last_seen_ids)

\* A pass classifies a new item while another listed item is in the ledger.
C3_ListedItemSkipped ==
    \E p \in CheckPasses :
        /\ cp[p].pc = "classify"
        /\ \E i \in DOMAIN cp[p].items :
               cp[p].items[i] \in Range(last_seen_ids)

\* C4: last_seen_ids never holds more than 200 ids, and every write of it is
\* a reset or the last 200 of the list the writer read followed by its new
\* ids: what is dropped is the oldest.
C4_LedgerCapFifo ==
    /\ [](Len(last_seen_ids) <= LedgerCap)
    /\ [][last_seen_ids' # last_seen_ids =>
            LET written ==
                    IF isync.pc = "classify"
                    THEN {isync.last_ids,
                          Append(isync.last_ids, isync.pending[isync.k])}
                    ELSE {cp[p].last_ids \o cp[p].new_items :
                            p \in {q \in CheckPasses :
                                      /\ cp[q].pc # "idle"
                                      /\ cp'[q].pc = "idle"}}
                m == Len(last_seen_ids')
            IN \/ last_seen_ids' = <<>>
               \/ \E list \in written :
                     /\ m = IF Len(list) <= LedgerCap THEN Len(list)
                            ELSE LedgerCap
                     /\ \A i \in 1..m :
                           last_seen_ids'[i] = list[Len(list) - m + i]
          ]_vars

\* A full ledger lost its oldest id to a newly listed one.
C4_OldestEvicted ==
    /\ Len(last_seen_ids) = LedgerCap
    /\ last_seen_ids[1] # 1
    /\ last_seen_ids[LedgerCap] \in PageIds

\* C5: the subscriber list never holds a recipient twice, and every change
\* of it appends a recipient that was absent or removes one that was
\* present: a repeated subscribe and an unsubscribe of a stranger change
\* nothing.
C5_SubscribeIdempotent ==
    /\ [](\A i, j \in DOMAIN subscribers :
             i # j => subscribers[i] # subscribers[j])
    /\ [][subscribers' # subscribers =>
            \/ \E x \in Sessions :
                  /\ x \notin Range(subscribers)
                  /\ subscribers' = Append(subscribers, x)
            \/ \E x \in Range(subscribers) :
                  /\ Range(subscribers') = Range(subscribers) \ {x}
                  /\ Len(subscribers') = Len(subscribers) - 1
          ]_vars

\* A recipient subscribed a second time and is still listed once.
C5_Resubscribed ==
    cmd_reply = "already subscribed" /\ Len(subscribers) = 1

\* C6: the KB holds no registration entry whose start and end fall on the
\* same day or whose end precedes its start.
C6_AnomalousExcluded ==
    \A i \in DOMAIN competitions :
        LET c == competitions[i]
        IN ~(/\ c.is_registration
             /\ FromIso(c.start_date) # NoDay
             /\ FromIso(c.end_date) # NoDay
             /\ FromIso(c.end_date) <= FromIso(c.start_date))

\* C7: every entry of errors is a window that ends on or before its start,
\* with the reason that names which; and a classification appends the item
\* to errors exactly when it is a registration with such a window.
C7_AnomalousLogged ==
    /\ [](\A i \in DOMAIN errors :
             LET from == FromIso(errors[i].start_date)
                 to == FromIso(errors[i].end_date)
             IN /\ from # NoDay
                /\ to # NoDay
                /\ \/ to = from /\ errors[i].reason = "start_equals_end"
                   \/ to < from /\ errors[i].reason = "end_before_start")
    /\ [][(\/ isync.pc = "classify" /\ isync' # isync
           \/ \E p \in CheckPasses : cp[p].pc = "classify" /\ cp'[p] # cp[p])
          => LET c == classified'
                 from == FromIso(c.start_date)
                 to == FromIso(c.end_date)
                 entry == [id |-> c.id,
                           reason |-> IF to = from THEN "start_equals_end"
                                      ELSE "end_before_start",
                           start_date |-> c.start_date,
                           end_date |-> c.end_date]
             IN IF c.is_registration /\ from # NoDay /\ to # NoDay
                   /\ to <= from
                THEN /\ errors' # <<>>
                     /\ errors'[Len(errors')] = entry
                     /\ Len(errors') = IF Len(errors) < ErrorsCap
                                       THEN Len(errors) + 1 ELSE ErrorsCap
                ELSE errors' = errors
          ]_vars

\* A registration whose window ends before it starts is on record.
C7_InvertedWindowLogged ==
    \E i \in DOMAIN errors :
        /\ errors[i].reason = "end_before_start"
        /\ errors[i].id = classified.id

\* C8: a check pass that ends on an item classified while the AI switch is
\* off leaves that item's id out of the ledger.
C8_DisabledRecordsNothing ==
    [][\A p \in CheckPasses :
          (cp[p].pc = "classify" /\ ~ai_use /\ cp'[p].pc = "idle")
              => cp[p].new_items[cp[p].k] \notin Range(last_seen_ids')
      ]_vars

\* C9: no KB item is reminded of twice on one calendar day.
C9_OneReminderPerDay ==
    \A i, j \in DOMAIN reminded : i # j => reminded[i] # reminded[j]


\* C15: an exception caught in an iteration ends no loop. A watcher loop that
\* caught one is in its cooldown or in a later step, never ended; it enters
\* the cooldown with a wake-up time Cooldown seconds ahead, whatever the
\* task's interval, and leaves it only for a check, once that time has come.
\* The periodic check loop and the reminder loop are back at their sleep
\* (from which the next pass starts) as soon as they have caught one.
C15_LoopsSurviveErrors ==
    /\ [](\A h \in AllLoops :
             loops[h].erred =>
                 loops[h].pc \in {"cooldown", "fetch", "send", "sleep"})
    /\ [][/\ \A h \in AllLoops :
               /\ (loops[h].pc # "cooldown" /\ loops'[h].pc = "cooldown")
                     => /\ loops'[h].wake = now + Cooldown
                        /\ loops'[h].erred
               /\ (loops[h].pc = "cooldown" /\ loops'[h].pc # "cooldown")
                     => /\ loops'[h].pc = "fetch"
                        /\ now >= loops[h].wake
                        /\ loops'[h].checked_at = now
          /\ "periodic" \in raised' \ raised => cp'["periodic"] = IdlePass
          /\ "remind" \in raised' \ raised => rp' = IdleRemind
         ]_vars

\* The periodic check loop caught an exception and sleeps, and a watcher loop
\* whose task has a longer interval checks again, Cooldown seconds after the
\* error it caught.
C15_CheckedAgainAfterCooldown ==
    /\ "periodic" \in raised
    /\ cp["periodic"] = IdlePass
    /\ \E h \in AllLoops :
          /\ loops[h].erred
          /\ loops[h].pc = "fetch"
          /\ loops[h].checked_at = now
          /\ tobj[loops[h].tid].interval > Cooldown


\* C16: in every fan-out the sends attempted so far went, one each and in
\* order, to the first subscribers of the list the pass read, whatever their
\* outcomes; and a fan-out (of a broadcast or of a reminder) ends only when
\* every subscriber of that list was attempted exactly once.
C16_FailureBlocksNoOne ==
    /\ [](LET Sess(sent) == [i \in 1..Len(sent) |-> sent[i].sess]
              Prefix(sent, subs) ==
                  /\ Len(sent) <= Len(subs)
                  /\ Sess(sent) = SubSeq(subs, 1, Len(sent))
          IN /\ \A p \in CheckPasses :
                    Prefix(cp[p].sent, cp[p].subscribers)
             /\ Prefix(rp.sent, rp.subscribers))
    /\ [][LET Sess(sent) == [i \in 1..Len(sent) |-> sent[i].sess]
          IN /\ \A p \in CheckPasses :
                    (cp[p].pc = "sending" /\ cp'[p].pc # "sending")
                        => Sess(cp[p].sent) = cp[p].subscribers
             /\ (rp.pc = "sending" /\ reminded' # reminded)
                        => Sess(rp.sent) = rp.subscribers
         ]_vars

\* In a broadcast and in a reminder to two subscribers, the send to the
\* first failed and the second was sent to all the same.
C16_SentAfterFailure ==
    /\ cp["periodic"].pc = "sending"
    /\ Len(cp["periodic"].subscribers) = 2
    /\ Len(cp["periodic"].sent) = 2
    /\ ~cp["periodic"].sent[1].ok
    /\ rp.pc = "sending"
    /\ Len(rp.subscribers) = 2
    /\ Len(rp.sent) = 2
    /\ ~rp.sent[1].ok


\* C17: tasks.json holds the registry and every task object as they are in
\* memory; and whenever no pass of the competition plugin is in flight, the
\* store file, if there is one, holds the ledger and the KB of the KV, so
\* that loading it at the next start changes neither.
C17_WriteThrough ==
    /\ tasks_file = SaveTasks(tasks, tobj)
    /\ (Quiet /\ rp.pc = "idle") =>
          /\ store_file.exists =>
                /\ store_file.last_seen_ids = last_seen_ids
                /\ store_file.competitions = competitions
          /\ LoadStoreFile(store_file, last_seen_ids, competitions)
                = [last_seen_ids |-> last_seen_ids,
                   competitions |-> competitions]


\* C18: when a check pass writes its result, what the KV held just before is
\* still there: every id of the ledger (as long as the cap evicts nothing)
\* and every KB item the pass did not classify itself, unchanged; and the
\* pass brings back no id and no item that the KV no longer held.
C18_NoLostUpdate ==
    [][\A p \in CheckPasses :
          (/\ cp[p].pc \in {"classify", "sending"}
           /\ cp'[p].pc = "idle"
           /\ <<last_seen_ids, competitions>>'
                 # <<last_seen_ids, competitions>>)
          => LET own == Range(cp[p].new_items)
             IN /\ Len(last_seen_ids') < LedgerCap
                      => Range(last_seen_ids) \subseteq Range(last_seen_ids')
                /\ Range(last_seen_ids')
                      \subseteq Range(last_seen_ids) \cup own
                /\ \A i \in DOMAIN competitions :
                      competitions[i].id \notin own
                          => competitions[i] \in Range(competitions')
                /\ \A j \in DOMAIN competitions' :
                      competitions'[j].id \notin own
                          => competitions'[j] \in Range(competitions)
      ]_vars


\* C19: the monitoring loops of one resource start their checks at least the
\* resource's interval apart: a loop starts a check no sooner than interval
\* seconds after its previous one, and the latest checks of two loops of
\* the same resource (one stopped by disable, one started by enable) lie at
\* least interval seconds apart.
C19_OncePerInterval ==
    /\ [](\A h1, h2 \in AllLoops :
             (/\ h1 < h2
              /\ loops[h1].tid = loops[h2].tid
              /\ loops[h1].tid \in tasks
              /\ loops[h1].checked_at > 0
              /\ loops[h2].checked_at > 0)
                 => loops[h2].checked_at - loops[h1].checked_at
                        >= tobj[loops[h1].tid].interval)
    /\ [][\A h \in AllLoops :
             (/\ loops[h].checked_at > 0
              /\ loops'[h].checked_at # loops[h].checked_at)
                 => loops'[h].checked_at - loops[h].checked_at
                        >= tobj[loops[h].tid].interval
         ]_vars


\* C20: a check pass is in the fan-out of a broadcast only for an item whose
\* is_registration flag is set: it enters the fan-out from a classification
\* that made the item a registration, and the item it is sending is one.
C20_OnlyRegistrationsPushed ==
    /\ [](\A p \in CheckPasses :
             cp[p].pc = "sending" => cp[p].comp.is_registration)
    /\ [][\A p \in CheckPasses :
             (cp[p].pc = "classify" /\ cp'[p].pc = "sending")
                 => /\ classified'.is_registration
                    /\ classified'.id = cp[p].new_items[cp[p].k]
                    /\ cp'[p].comp = classified'
         ]_vars

\* With a subscriber listed, the first new item was classified as no
\* registration and the pass went on to the second without a send.
C20_PlainNoticeNotPushed ==
    /\ cp["periodic"].pc = "classify"
    /\ cp["periodic"].k = 2
    /\ cp["periodic"].subscribers # <<>>
    /\ classified.id = cp["periodic"].new_items[1]
    /\ ~classified.is_registration


\* C21: the manual initialisation has no send, and when it ends every item it
\* found new in the list is in the ledger, so that a check pass over the
\* same list finds none of them new.
C21_InitRecordsAll ==
    [][(isync.pc = "classify" /\ isync'.pc = "idle")
          => /\ Range(isync.pending) \subseteq Range(last_seen_ids')
             /\ NewItems(isync.pending, last_seen_ids') = <<>>
      ]_vars


\* C22: no send of a broadcast delivers an item to a subscriber that a
\* broadcast of the same item has reached before.
C22_BroadcastOnce ==
    [][\A p \in CheckPasses :
          (/\ cp[p].pc = "sending"
           /\ Len(cp'[p].sent) = Len(cp[p].sent) + 1
           /\ cp'[p].sent[Len(cp'[p].sent)].ok)
          => <<cp[p].comp.id, cp'[p].sent[Len(cp'[p].sent)].sess>>
                \notin pushed
      ]_vars


\* C23: when a monitoring loop's check_update returns after a fetch that
\* brought a page, the task's last_check_time is the time of that check.
C23_LastCheckTimeStamped ==
    [][\A h \in AllLoops :
          (/\ loops[h].pc = "fetch"
           /\ loops'[h].pc \in {"sleep", "send"}
           /\ Truthy(lastCheck'.fetched))
          => tobj'[loops[h].tid].last_check_time = now
      ]_vars


\* C24: a step that disables a task changes nothing of it but the enabled
\* flag and keeps it registered; and while a registered task is disabled
\* no check_update call for it begins (from a loop or from the check
\* command), and its url, interval, last_hash and last_check_time stay as
\* they are.
C24_DisabledSkippedRetained ==
    [][\A t \in tasks :
          /\ (tobj[t].enabled /\ ~tobj'[t].enabled)
                => /\ tobj'[t] = [tobj[t] EXCEPT !.enabled = FALSE]
                   /\ t \in tasks'
          /\ ~tobj[t].enabled
                => /\ \A h \in AllLoops :
                         (loops'[h].tid = t /\ loops'[h].pc = "fetch")
                             => loops[h].pc = "fetch"
                   /\ \A c \in cmds' \ cmds :
                         ~(c.kind = "check" /\ c.tid = t)
                   /\ [tobj'[t] EXCEPT !.enabled = FALSE] = tobj[t]
      ]_vars


\* C25: _fetch_html_playwright has been called at most once.
C25_RenderedAtMostOnce == renders <= 1

\* C26: the errors list never holds more than 200 entries, and an append
\* keeps the most recent ones: the new entry comes last, after the old list
\* or, where that was full, after all of it but its oldest entry.
C26_ErrorsCapped ==
    /\ [](Len(errors) <= ErrorsCap)
    /\ [][errors' \notin {errors, <<>>} =>
            /\ SubSeq(errors', 1, Len(errors') - 1) =
                   IF Len(errors) < ErrorsCap THEN errors ELSE Tail(errors)
            /\ errors'[Len(errors')].start_date # OldDate]_vars

\* An entry of this run is the last of a full list that has lost its oldest.
C26_OldestEvicted ==
    /\ Len(errors) = ErrorsCap
    /\ errors[ErrorsCap].start_date # OldDate
    /\ errors[1].id = 2

C28_PeriodicStaysScheduled == running => bgloops["periodic"] = "alive"

\* C29: once terminate has run, both background loops end, whatever commands
\* came before; an ended loop stays ended, and no periodic check pass and no
\* reminder pass begins after terminate.
C29_LoopsStopAfterTerminate ==
    /\ ~running ~> (\A l \in BgLoops : bgloops[l] = "done")
    /\ [][\A l \in BgLoops : bgloops[l] = "done" => bgloops'[l] = "done"]_vars
    /\ [][~running =>
            /\ cp["periodic"].pc = "idle" => cp'["periodic"].pc = "idle"
            /\ rp.pc = "idle" => rp'.pc = "idle"]_vars

\* Terminate has run after a stopcheck took self._check_task away, and both
\* loops have ended.
C29_StoppedAfterStopCheck ==
    /\ ~running
    /\ check_task = None
    /\ \A l \in BgLoops : bgloops[l] = "done"

\* C30: the reset command empties the ledger, the KB and the errors list and
\* leaves the subscribers and the AI switch as they were; the first check
\* pass to read the ledger after a reset finds every listed item new, and the
\* registrations among them go to the subscribers the pass read.
C30_ResetRestartsDedup ==
    /\ [][after_reset' /\ ~after_reset =>
            /\ last_seen_ids' = <<>> /\ competitions' = <<>>
            /\ errors' = <<>>
            /\ subscribers' = subscribers /\ ai_use' = ai_use]_vars
    /\ [][\A p \in CheckPasses :
            (/\ after_reset
             /\ cp[p].pc = "fetching" /\ cp'[p].pc # "fetching"
             /\ listed' # <<>>) =>
                /\ cp'[p].pc = "classify"
                /\ cp'[p].new_items = listed']_vars

\* C31: a reminder goes out only for a KB item that has an end date lying 0
\* to 3 calendar days after the day of the reminder pass; and what a reminder
\* pass saves keeps the last_remind of every item without an end date or
\* outside that window, passed deadlines included.
C31_RemindedOnlyInWindow ==
    [][LET InWindow(comp, day) ==
               \E d \in 0..DaysThreshold :
                   comp.end_date \in {IsoFormat(day + d)} \ {None}
       IN /\ reminded' # reminded => InWindow(rp.kb[rp.k], rp.day)
          /\ (rp.pc = "sending" /\ rp'.pc = "idle") =>
                \A i \in DOMAIN rp.kb :
                   ~InWindow(rp.kb[i], rp.day) =>
                       /\ i \in DOMAIN competitions'
                       /\ competitions'[i] = rp.kb[i]
      ]_vars

\* On 2026-02-02 a reminder is under way for the item closing on 2026-02-03,
\* past an item whose deadline of 2026-02-01 is over.
C31_PassedDeadlineSkipped ==
    /\ rp.pc = "sending"
    /\ rp.day = 33
    /\ \E i \in 1..(rp.k - 1) : FromIso(rp.kb[i].end_date) = 32

\* C32: the reminder loop calls the reminder pass at most once in the
\* window of a day, and exactly once by the time the window is over.
C32_OnePassPerDay ==
    /\ rl.fired <= 1
    /\ (minute > 2 /\ rl.pc = "sleep") => rl.fired = 1
\* C33: an add with a URL that starts with neither http:// nor https://, or
\* with an interval below 60, is rejected and leaves the registry, the tasks
\* file and the running loops as they were; an accepted add puts exactly one
\* new task in the registry, enabled, saved, with the arguments it was given
\* checked, and with a freshly created loop registered for it.
C33_AddRejectsOrAddsOne ==
    [][/\ (web_reply' # web_reply
            /\ web_reply' \in {"invalid url", "interval too small"})
           => UNCHANGED <<tasks, tobj, tasks_file, running_tasks, loops>>
       /\ \A t \in tasks' \ tasks :
             /\ tasks' = tasks \cup {t}
             /\ web_reply' = "added"
             /\ tobj'[t].enabled
             /\ \/ StartsWith(tobj'[t].url, "http://")
                \/ StartsWith(tobj'[t].url, "https://")
             /\ tobj'[t].interval >= 60
             /\ tasks_file' = [u \in tasks' |-> tobj'[u]]
             /\ running_tasks[t] = 0
             /\ running_tasks'[t] # 0
             /\ loops[running_tasks'[t]].pc = "unused"
             /\ loops'[running_tasks'[t]].tid = t
             /\ loops'[running_tasks'[t]].pc = "new"
             /\ \A u \in tasks :
                   /\ tobj'[u] = tobj[u]
                   /\ running_tasks'[u] = running_tasks[u]]_vars

\* An https task added after a rejected add, its loop registered.
C33_AddedAfterRejection ==
    \E t \in tasks :
       /\ tobj[t].url = "https://x"
       /\ tobj[t].interval = 60
       /\ running_tasks[t] # 0
       /\ web_reply = "added"

\* C34: a restart from a saved registry (save_tasks, then load_tasks and
\* on_bot_loaded) leaves the same ids with the same url, interval, enabled,
\* origin, last_hash and last_check_time; it starts a loop for exactly the
\* enabled tasks; and the first check of a loop whose task has a baseline
\* notifies nothing when the page fetched hashes to that baseline.
C34_RestartRestores ==
    [][/\ (web_reply' = "loaded" /\ web_reply # "loaded"
            /\ tasks_file = SaveTasks(tasks, tobj))
           => /\ tasks' = tasks
              /\ \A t \in tasks :
                    /\ tobj'[t].url = tobj[t].url
                    /\ tobj'[t].interval = tobj[t].interval
                    /\ tobj'[t].enabled = tobj[t].enabled
                    /\ tobj'[t].unified_msg_origin
                          = tobj[t].unified_msg_origin
                    /\ tobj'[t].last_hash = tobj[t].last_hash
                    /\ tobj'[t].last_check_time = tobj[t].last_check_time
              /\ \A t \in AllTids :
                    running_tasks'[t] # 0 <=> (t \in tasks /\ tobj[t].enabled)
              /\ \A h \in AllLoops :
                    loops'[h].pc # "unused"
                       => /\ loops'[h].pc = "new"
                          /\ running_tasks'[loops'[h].tid] = h
       /\ \A h \in AllLoops :
             (/\ loops[h].pc = "fetch"
              /\ loops'[h].pc \in {"send", "sleep"}
              /\ tobj[loops[h].tid].last_hash # ""
              /\ Truthy(lastCheck'.fetched)
              /\ CalculateHash(lastCheck'.fetched)
                    = tobj[loops[h].tid].last_hash)
             => /\ loops'[h].pc = "sleep"
                /\ loops'[h].content = None]_vars

\* After a restart the loop of a task with a baseline has made its first
\* check, the page was the one of the baseline, and it sleeps.
C34_QuietAfterRestart ==
    /\ web_reply = "loaded"
    /\ \E h \in AllLoops :
          /\ loops[h].pc = "sleep"
          /\ loops[h].tid \in tasks
          /\ tobj[loops[h].tid].enabled
          /\ lastCheck.prev_hash # ""
          /\ Truthy(lastCheck.fetched)
          /\ CalculateHash(lastCheck.fetched) = lastCheck.prev_hash
          /\ tobj[loops[h].tid].last_hash = lastCheck.prev_hash

\* C35: whenever no command is in progress, an id has a loop registered in
\* running_tasks exactly when it is in the registry with enabled true.
C35_RegisteredIffEnabled ==
    cmds = {}
        => \A t \in AllTids :
              running_tasks[t] # 0 <=> (t \in tasks /\ tobj[t].enabled)

\* C36: however remove, disable and enable are interleaved at the await of
\* stop_monitoring, an id that is not in the registry (never added, or its
\* remove has completed) has no loop registered and no loop that can still
\* run.
C36_NoLoopForRemoved ==
    /\ \A t \in AllTids : t \notin tasks => running_tasks[t] = 0
    /\ \A h \in AllLoops :
          (loops[h].pc \notin {"unused", "done"} /\ ~CancelPending(h))
             => loops[h].tid \in tasks

\* C37: the KB never holds two entries with the same id, in the KV store
\* and in the list a check pass or an init pass is building: a put of an id
\* that is present replaces the entry.
C37_KbIdsUnique ==
    LET Unique(kb) == \A i, j \in DOMAIN kb : kb[i].id = kb[j].id => i = j
    IN /\ Unique(competitions)
       /\ \A p \in CheckPasses : Unique(cp[p].kb)
       /\ Unique(isync.kb)

\* A check pass, alone in flight, met a KB that holds an id the ledger has
\* lost, and has put the id again.
C37_EntryReplaced ==
    \E p \in CheckPasses :
       /\ cp[p].pc # "idle"
       /\ InFlight = 1
       /\ cp[p].comp # NoComp
       /\ cp[p].comp.id \notin Range(last_seen_ids)
       /\ \E i \in DOMAIN competitions : competitions[i].id = cp[p].comp.id
       /\ \E i \in DOMAIN cp[p].kb : cp[p].kb[i] = cp[p].comp
       /\ Len(cp[p].kb) = Len(competitions)

\* C38: the ledger never holds an id twice, whatever the interleaving of the
\* check passes, the init pass and reset.
C38_LedgerIdsUnique ==
    Cardinality(Range(last_seen_ids)) = Len(last_seen_ids)

\* A check pass is about to record an id that another pass has recorded
\* since this one read the ledger.
C38_RecordedMeanwhile ==
    \E p \in CheckPasses :
       /\ cp[p].pc # "idle"
       /\ \E k \in DOMAIN cp[p].new_items :
             /\ cp[p].new_items[k] \in Range(last_seen_ids)
             /\ cp[p].new_items[k] \notin Range(cp[p].last_ids)
       /\ Len(last_seen_ids) = LedgerCap

\* C39: every send of a broadcast or of a reminder goes to a session that
\* is subscribed when the send is made: none goes to a recipient whose
\* unsubscribe has completed, also when the pass was in progress then.
C39_NoSendAfterUnsubscribe ==
    [][/\ \A p \in CheckPasses :
             Len(cp'[p].sent) > Len(cp[p].sent)
                => cp'[p].sent[Len(cp'[p].sent)].sess \in Range(subscribers)
       /\ Len(rp'.sent) > Len(rp.sent)
             => rp'.sent[Len(rp'.sent)].sess \in Range(subscribers)]_vars

\* C40: the loop goes on to a notification only from a check that advanced
\* the stored hash to the hash of the page fetched, and the advanced hash is
\* in the tasks file before the send begins; a check that fetches a page
\* whose hash is the stored one (after a failed send, or after a manual
\* check that detected the change) goes to sleep and pushes nothing.
C40_HashAdvancedBeforePush ==
    [][\A h \in AllLoops :
          LET t == loops[h].tid
              content == lastCheck'.fetched
          IN /\ (loops[h].pc = "fetch" /\ loops'[h].pc = "send")
                  => /\ Truthy(content)
                     /\ tobj[t].last_hash # CalculateHash(content)
                     /\ tobj'[t].last_hash = CalculateHash(content)
                     /\ t \in tasks
                           => tasks_file'[t].last_hash = tobj'[t].last_hash
             /\ (/\ loops[h].pc = "fetch"
                 /\ loops'[h].pc \in {"send", "sleep"}
                 /\ Truthy(content)
                 /\ tobj[t].last_hash = CalculateHash(content))
                  => /\ loops'[h].pc = "sleep"
                     /\ loops'[h].content = None
                     /\ UNCHANGED <<tobj, tasks_file>>]_vars

\* After a failure in the loop, its latest check fetched the page whose hash
\* was stored, returned nothing, and the loop sleeps.
C40_UnchangedAfterFailure ==
    \E h \in AllLoops :
       /\ loops[h].erred
       /\ loops[h].pc = "sleep"
       /\ Truthy(lastCheck.fetched)
       /\ lastCheck.prev_hash = CalculateHash(lastCheck.fetched)
       /\ lastCheck.ret = None
       /\ tobj[loops[h].tid].last_hash = lastCheck.prev_hash

====
